---- MODULE Spec2Model ----
(***************************************************************************)
(* Model of the ingestion / labeling / retrieval / prompting pipeline of   *)
(* the Cite backend (src/backend/app).                                     *)
(*                                                                         *)
(* Text is modelled as a sequence of fragments (TLA+ strings).  A Python   *)
(* substring test `p in s` becomes "some fragment of s is p or is listed   *)
(* as embedding p"; s.lower() maps every fragment through LowerOf; and     *)
(* len(s.split()) is the sum of the fragments' word counts.                *)
(***************************************************************************)
EXTENDS Integers, Sequences, FiniteSets, TLC

VARIABLES
    \* --- LLMService as pure functions (llm_service.py) ---
    mode,            \* TaskMode of the call
    output,          \* text handed to validate_generation
    error_context,   \* text handed to fallback_response
    generation,      \* <<validate_generation(output, mode)>> once called, else <<>>
    fallback,        \* <<fallback_response(mode, error_context)>> once called, else <<>>
    fallback_check,  \* <<validate_generation(fallback, mode)>> once called, else <<>>
    \* --- POST /assist (routes.py: get_assistance) ---
    request,         \* <<AssistRequest>> being served, else <<>>
    retrieved_chunks,\* [ok, results]: outcome of vector_store.search for the request
    prompt_sources,  \* <<retrieved_sources handed to build_prompt>>, <<>> if not reached
    completion,      \* [kind, text]: outcome of llm_service.generate_guidance
    response,        \* <<AssistResponse>> returned, else <<>>
    \* --- DocumentProcessor (document_processor.py) ---
    file,            \* the file being processed: [ext, pages]
    chunks,          \* <<list of DocumentChunk>> once processed, else <<>>
    \* --- the two stores and the upload requests (routes.py, vector_store.py) ---
    index,           \* the Pinecone index: set of embedding records
    documents,       \* the documents table: set of rows
    uploads,         \* per document id, the upload_document request that minted it
    \* --- the chunk_labels table (chunk_labeling.py, labeling.py) ---
    chunk_labels,    \* per chunk_id, <<ChunkLabel row>> or <<>>
    labeled_chunks,  \* <<[failing, chunks]>>: the last process_and_label_chunks call, else <<>>
    \* --- PromptBuilder.build_prompt (prompt_builder.py) ---
    build_args,  \* the arguments of the build_prompt call
    components,  \* <<PromptComponents>> once built, else <<>>
    prompt, \* <<the prompt returned>>, else <<>>
    \* --- ChunkLabelingService as pure functions (chunk_labeling.py) ---
    label_text,  \* the chunk text handed to the labeling functions
    role_result,  \* <<_detect_rhetorical_role(label_text)>> once called, else <<>>
    tags_result, \* <<_extract_topic_tags(label_text)>> once called, else <<>>
    \* --- VectorStore.search (vector_store.py) ---
    search_results, \* <<[user_id, results]>> of the last search call, else <<>>
    \* --- retried operations (tenacity) ---
    operation,  \* the retried method in progress: search or generate_guidance
    call_pc,  \* its position: embed, query, completion, returned, raised
    attempt_number,  \* attempt of the method's own retry wrapper
    embedding_attempt,  \* attempt of _get_embedding's retry wrapper inside search
    call_log, \* external calls made so far, as <<call, succeeded>>
    \* --- sanitize_filename (core/security.py) ---
    filename,  \* the filename handed to sanitize_filename, a sequence of characters
    safe_filename, \* <<sanitize_filename(filename)>> once called, else <<>>
    \* --- RateLimiter.check_rate_limit (core/rate_limiter.py) ---
    redis_key,  \* the key ratelimit:{user_id}:{action}: <<[value, ttl]>>, ttl -1 for no expiry, or <<>>
    call_state,  \* per concurrent caller, the position and the outcome of its check_rate_limit call
    allowed_calls, \* calls allowed since the key last expired
    \* --- PromptBuilder.validate_output (prompt_builder.py) ---
    output_check  \* <<validate_output(output, mode)>> once called, else <<>>

llmVars == <<mode, output, error_context, generation, fallback, fallback_check>>
assistVars == <<request, retrieved_chunks, prompt_sources, completion, response>>
procVars == <<file, chunks>>
storeVars == <<index, documents, uploads>>
labelVars == <<chunk_labels, labeled_chunks>>
promptVars == <<build_args, components, prompt>>
labelerVars == <<label_text, role_result, tags_result>>
searchVars == <<search_results>>
retryVars == <<operation, call_pc, attempt_number, embedding_attempt, call_log>>
sanitizeVars == <<filename, safe_filename>>
rateVars == <<redis_key, call_state, allowed_calls>>
validatorVars == <<output_check>>
vars == <<llmVars, assistVars, procVars, storeVars, labelVars, promptVars, labelerVars, searchVars, retryVars, sanitizeVars, rateVars, validatorVars>>

-----------------------------------------------------------------------------
(* schemas.py: TaskMode *)

TaskMode == {"START", "CONTINUE", "REFRAME", "STUCK_DIAGNOSIS", "OUTLINE"}

-----------------------------------------------------------------------------
(* Text fragments *)

ModeHeading(m) ==
    CASE m = "START" -> "## START Guidance"
      [] m = "CONTINUE" -> "## CONTINUE Guidance"
      [] m = "REFRAME" -> "## REFRAME Guidance"
      [] m = "STUCK_DIAGNOSIS" -> "## STUCK_DIAGNOSIS Guidance"
      [] m = "OUTLINE" -> "## OUTLINE Guidance"

\* words of a fragment: len(fragment.split())
Words(f) ==
    CASE f \in {ModeHeading(m) : m \in TaskMode} -> 3
      [] f = "### 1. Likely Next Move" -> 5
      [] f = "### 2. Supporting Rationale" -> 4
      [] f = "### 3. Alternative Paths" -> 4
      [] f = "### 4. Cautions or Limitations" -> 5
      [] f = "Unable to generate specific guidance at this time." -> 8
      [] f = "[No relevant source found - insufficient context in document corpus]" -> 10
      [] f = "Consider uploading additional documents related to your topic for more targeted guidance." -> 12
      [] f = "The system encountered an issue generating guidance. This may indicate: - Insufficient relevant documents in your corpus - Need for more specific context in your query - Technical limitation requiring retry" -> 31
      [] f = "Error context:" -> 2
      [] f = "Unknown error" -> 2
      [] f = "Missing required section:" -> 3
      [] f \in {"First-person opinion detected", "First-person suggestion detected",
                "Personal opinion detected", "First-person perspective detected",
                "First-person recommendation detected"} -> 3
      [] f = "Factual claims without source citations detected" -> 6
      [] f = "Response too long (N words, max 300)" -> 7
      [] f = "RetryError[<Future state=finished raised RuntimeError>]" -> 5
      [] f = "argument of type 'NoneType' is not iterable" -> 7
      [] f = "1 validation error for SourceCitation similarity_score Input should be greater than or equal to 0" -> 16
      [] f \in {"I think", "i think", "I THINK", "I believe", "i believe",
                "I would", "i would", "My approach", "my approach",
                "I recommend", "i recommend"} -> 2
      [] f \in {"In my opinion", "in my opinion"} -> 3
      [] f \in {"research shows", "Research shows", "studies indicate",
                "Studies indicate", "evidence suggests", "Evidence suggests"} -> 2
      [] f \in {"**Source", "**source", "x", "guidance"} -> 1
      [] f \in {"[No relevant source", "[no relevant source"} -> 3
      [] f = "<200 plain words>" -> 200
      [] f = "<300 plain words>" -> 300
      [] OTHER -> 1

\* str.lower() of a fragment
LowerOf(f) ==
    CASE f \in {"I think", "I THINK"} -> "i think"
      [] f = "I believe" -> "i believe"
      [] f = "I would" -> "i would"
      [] f = "In my opinion" -> "in my opinion"
      [] f = "My approach" -> "my approach"
      [] f = "I recommend" -> "i recommend"
      [] f = "Research shows" -> "research shows"
      [] f = "Studies indicate" -> "studies indicate"
      [] f = "Evidence suggests" -> "evidence suggests"
      [] f = "**Source" -> "**source"
      [] f = "[No relevant source" -> "[no relevant source"
      [] f = "## START Guidance" -> "## start guidance"
      [] f = "## CONTINUE Guidance" -> "## continue guidance"
      [] f = "## REFRAME Guidance" -> "## reframe guidance"
      [] f = "## STUCK_DIAGNOSIS Guidance" -> "## stuck_diagnosis guidance"
      [] f = "## OUTLINE Guidance" -> "## outline guidance"
      [] f = "### 1. Likely Next Move" -> "### 1. likely next move"
      [] f = "### 2. Supporting Rationale" -> "### 2. supporting rationale"
      [] f = "### 3. Alternative Paths" -> "### 3. alternative paths"
      [] f = "### 4. Cautions or Limitations" -> "### 4. cautions or limitations"
      [] f = "[No relevant source found - insufficient context in document corpus]"
            -> "[no relevant source found - insufficient context in document corpus]"
      [] f = "Unable to generate specific guidance at this time."
            -> "unable to generate specific guidance at this time."
      [] f = "Error context:" -> "error context:"
      [] f = "Unknown error" -> "unknown error"
      [] f = "Missing required section:" -> "missing required section:"
      [] f = "First-person opinion detected" -> "first-person opinion detected"
      [] f = "First-person suggestion detected" -> "first-person suggestion detected"
      [] f = "Personal opinion detected" -> "personal opinion detected"
      [] f = "First-person perspective detected" -> "first-person perspective detected"
      [] f = "First-person recommendation detected" -> "first-person recommendation detected"
      [] f = "Factual claims without source citations detected"
            -> "factual claims without source citations detected"
      [] f = "Response too long (N words, max 300)" -> "response too long (n words, max 300)"
      [] f = "RetryError[<Future state=finished raised RuntimeError>]"
            -> "retryerror[<future state=finished raised runtimeerror>]"
      [] f = "argument of type 'NoneType' is not iterable"
            -> "argument of type 'nonetype' is not iterable"
      [] OTHER -> f

\* fragment f has p as a substring
Embeds(f, p) ==
    \/ f = p
    \/ /\ p = "[No relevant source"
       /\ f = "[No relevant source found - insufficient context in document corpus]"
    \/ /\ p = "[no relevant source"
       /\ f = "[no relevant source found - insufficient context in document corpus]"

\* Python `p in text`
Contains(text, p) == \E i \in DOMAIN text : Embeds(text[i], p)

\* Python `p.lower() in text.lower()`
ContainsLower(text, p) == \E i \in DOMAIN text : Embeds(LowerOf(text[i]), LowerOf(p))

RECURSIVE WordCount(_)
\* len(text.split())
WordCount(text) ==
    IF text = <<>> THEN 0 ELSE Words(Head(text)) + WordCount(Tail(text))

-----------------------------------------------------------------------------
(* llm_service.py: LLMService.validate_generation *)

MaxWords == 300

required_sections(m) ==
    << ModeHeading(m),
       "### 1. Likely Next Move",
       "### 2. Supporting Rationale",
       "### 4. Cautions or Limitations" >>

\* the dict forbidden_patterns, in insertion order
forbidden_patterns ==
    << <<"I think", "First-person opinion detected">>,
       <<"I believe", "First-person opinion detected">>,
       <<"I would", "First-person suggestion detected">>,
       <<"In my opinion", "Personal opinion detected">>,
       <<"My approach", "First-person perspective detected">>,
       <<"I recommend", "First-person recommendation detected">> >>

claim_indicators == <<"research shows", "studies indicate", "evidence suggests">>

\* index of the first element of a list satisfying a test, 0 if none
FirstMissing(text, secs) ==
    IF \E i \in DOMAIN secs : ~Contains(text, secs[i])
    THEN CHOOSE i \in DOMAIN secs :
            /\ ~Contains(text, secs[i])
            /\ \A j \in 1..(i - 1) : Contains(text, secs[j])
    ELSE 0

FirstForbidden(text) ==
    IF \E i \in DOMAIN forbidden_patterns : ContainsLower(text, forbidden_patterns[i][1])
    THEN CHOOSE i \in DOMAIN forbidden_patterns :
            /\ ContainsLower(text, forbidden_patterns[i][1])
            /\ \A j \in 1..(i - 1) : ~ContainsLower(text, forbidden_patterns[j][1])
    ELSE 0

\* variant: the first-person check runs before the section check
validate_generation_ForbiddenFirst(text, m) ==
    LET miss == FirstMissing(text, required_sections(m))
        forb == FirstForbidden(text)
    IN  IF forb # 0
        THEN [is_valid |-> FALSE, error_msg |-> <<forbidden_patterns[forb][2]>>]
        ELSE IF miss # 0
        THEN [is_valid |-> FALSE,
              error_msg |-> <<"Missing required section:", required_sections(m)[miss]>>]
        ELSE IF /\ ~Contains(text, "**Source")
                /\ ~Contains(text, "[No relevant source")
                /\ \E i \in DOMAIN claim_indicators : ContainsLower(text, claim_indicators[i])
        THEN [is_valid |-> FALSE,
              error_msg |-> <<"Factual claims without source citations detected">>]
        ELSE IF WordCount(text) > MaxWords
        THEN [is_valid |-> FALSE, error_msg |-> <<"Response too long (N words, max 300)">>]
        ELSE [is_valid |-> TRUE, error_msg |-> <<>>]

\* variant: the claim-indicator test compares case-sensitively against the
\* capitalised phrases
validate_generation_NoClaimCheck(text, m) ==
    LET miss == FirstMissing(text, required_sections(m))
        forb == FirstForbidden(text)
    IN  IF miss # 0
        THEN [is_valid |-> FALSE,
              error_msg |-> <<"Missing required section:", required_sections(m)[miss]>>]
        ELSE IF forb # 0
        THEN [is_valid |-> FALSE, error_msg |-> <<forbidden_patterns[forb][2]>>]
        ELSE IF /\ ~Contains(text, "**Source")
                /\ ~Contains(text, "[No relevant source")
                /\ \E i \in DOMAIN claim_indicators : Contains(text, claim_indicators[i])
        THEN [is_valid |-> FALSE,
              error_msg |-> <<"Factual claims without source citations detected">>]
        ELSE IF WordCount(text) > MaxWords
        THEN [is_valid |-> FALSE, error_msg |-> <<"Response too long (N words, max 300)">>]
        ELSE [is_valid |-> TRUE, error_msg |-> <<>>]

validate_generation(text, m) ==
    LET miss == FirstMissing(text, required_sections(m))
        forb == FirstForbidden(text)
    IN  IF miss # 0
        THEN [is_valid |-> FALSE,
              error_msg |-> <<"Missing required section:", required_sections(m)[miss]>>]
        ELSE IF forb # 0
        THEN [is_valid |-> FALSE, error_msg |-> <<forbidden_patterns[forb][2]>>]
        ELSE IF /\ ~Contains(text, "**Source")
                /\ ~Contains(text, "[No relevant source")
                /\ \E i \in DOMAIN claim_indicators : ContainsLower(text, claim_indicators[i])
        THEN [is_valid |-> FALSE,
              error_msg |-> <<"Factual claims without source citations detected">>]
        ELSE IF WordCount(text) > MaxWords
        THEN [is_valid |-> FALSE, error_msg |-> <<"Response too long (N words, max 300)">>]
        ELSE [is_valid |-> TRUE, error_msg |-> <<>>]

(* llm_service.py: LLMService.fallback_response *)

\* variant: the template lacks the "### 4. Cautions or Limitations" heading
fallback_response_NoCautions(m, ctx) ==
    << ModeHeading(m),
       "### 1. Likely Next Move",
       "Unable to generate specific guidance at this time.",
       "### 2. Supporting Rationale",
       "[No relevant source found - insufficient context in document corpus]",
       "### 3. Alternative Paths",
       "Consider uploading additional documents related to your topic for more targeted guidance.",
       "The system encountered an issue generating guidance. This may indicate: - Insufficient relevant documents in your corpus - Need for more specific context in your query - Technical limitation requiring retry",
       "Error context:" >>
    \o (IF ctx # <<>> THEN ctx ELSE <<"Unknown error">>)

fallback_response(m, ctx) ==
    << ModeHeading(m),
       "### 1. Likely Next Move",
       "Unable to generate specific guidance at this time.",
       "### 2. Supporting Rationale",
       "[No relevant source found - insufficient context in document corpus]",
       "### 3. Alternative Paths",
       "Consider uploading additional documents related to your topic for more targeted guidance.",
       "### 4. Cautions or Limitations",
       "The system encountered an issue generating guidance. This may indicate: - Insufficient relevant documents in your corpus - Need for more specific context in your query - Technical limitation requiring retry",
       "Error context:" >>
    \o (IF ctx # <<>> THEN ctx ELSE <<"Unknown error">>)

-----------------------------------------------------------------------------
(* Inputs of the LLMService functions *)

MaxExtras == 2
MaxCtxLen == 2

\* fragments a completion may contain besides the required headings
ExtraFragments ==
    << "I think", "I THINK", "I believe", "I would", "In my opinion",
       "My approach", "I recommend",
       "**Source", "**source", "[No relevant source",
       "research shows", "Studies indicate", "evidence suggests",
       "## START Guidance", "## OUTLINE Guidance",
       "guidance", "<200 plain words>", "<300 plain words>" >>

\* the sub-sequence of s at the positions in idx
Pick(s, idx) ==
    LET F[i \in 0..Len(s)] ==
            IF i = 0 THEN <<>>
            ELSE IF i \in idx THEN Append(F[i - 1], s[i]) ELSE F[i - 1]
    IN  F[Len(s)]

\* texts a completion can return: some of the required headings of mode m
\* followed by up to MaxExtras other fragments
Outputs(m) ==
    { Pick(required_sections(m), hs) \o Pick(ExtraFragments, es) :
        hs \in SUBSET (1..4),
        es \in { e \in SUBSET DOMAIN ExtraFragments : Cardinality(e) <= MaxExtras } }

\* every reason validate_generation can return
ValidatorReasons ==
    { <<"Missing required section:", required_sections(m)[i]>> : m \in TaskMode, i \in 1..4 }
    \cup { <<forbidden_patterns[i][2]>> : i \in DOMAIN forbidden_patterns }
    \cup { <<"Factual claims without source citations detected">>,
           <<"Response too long (N words, max 300)">> }

\* str(e) of the exceptions the try block of get_assistance can see:
\* tenacity's RetryError from search / generate_guidance, the TypeError of a
\* None completion, pydantic's ValidationError from SourceCitation
ExceptionMessages ==
    { <<"RetryError[<Future state=finished raised RuntimeError>]">>,
      <<"argument of type 'NoneType' is not iterable">>,
      <<"1 validation error for SourceCitation similarity_score Input should be greater than or equal to 0">> }

CtxFragments ==
    { "x", "I think", "i would", "My approach", "research shows",
      "<200 plain words>", "<300 plain words>" }

RECURSIVE SeqsUpTo(_, _)
SeqsUpTo(S, n) ==
    IF n = 0 THEN {<<>>}
    ELSE LET prev == SeqsUpTo(S, n - 1)
         IN  prev \cup { Append(t, x) : t \in prev, x \in S }

\* any caller-supplied error_context string
ErrorContexts ==
    ValidatorReasons \cup ExceptionMessages \cup SeqsUpTo(CtxFragments, MaxCtxLen)

-----------------------------------------------------------------------------
(* Specification SpecLLM: the LLMService functions applied to drawn inputs *)

\* the LLMService functions have not been called
IdleLLM ==
    /\ mode = "START"
    /\ output = <<>>
    /\ error_context = <<>>
    /\ generation = <<>>
    /\ fallback = <<>>
    /\ fallback_check = <<>>

\* no /assist request has been served
IdleAssist ==
    /\ request = <<>>
    /\ retrieved_chunks = [ok |-> FALSE, results |-> <<>>]
    /\ prompt_sources = <<>>
    /\ completion = [kind |-> "error", text |-> <<>>]
    /\ response = <<>>

\* no file is being processed
IdleProc ==
    /\ file = [ext |-> "txt", pages |-> <<>>]
    /\ chunks = <<>>

MaxDocs == 2

\* document ids (uuid4 values; each is minted by at most one upload)
DocIds == 1..MaxDocs

NoUpload == [pc |-> "new", user_id |-> 0, vectors |-> <<>>, next |-> 0, chunk_count |-> 0]

\* empty index, empty documents table, no upload yet
IdleStore ==
    /\ index = {}
    /\ documents = {}
    /\ uploads = [d \in DocIds |-> NoUpload]

NumLabelChunks == 3

\* chunk ids f"{user_id}_{document_id}_{chunk_index}" of the chunks of
\* document 1 of user 1
LabelKeys == { <<1, 1, i>> : i \in 0..(NumLabelChunks - 1) }

\* the chunk_labels table is empty
IdleLabels == /\ chunk_labels = [k \in LabelKeys |-> <<>>]
              /\ labeled_chunks = <<>>

\* build_prompt has not been called
IdlePrompt ==
    /\ build_args = [mode |-> "START", editor_content |-> <<>>, retrieved_sources |-> <<>>,
                     additional_context |-> <<>>, style_hints |-> <<>>]
    /\ components = <<>>
    /\ prompt = <<>>

\* the labeling service has not been asked to label a text
IdleLabeler ==
    /\ label_text = [word_count |-> 0, matches |-> <<0, 0, 0, 0, 0, 0, 0, 0>>,
                     candidates |-> <<>>]
    /\ role_result = <<>>
    /\ tags_result = <<>>

\* no search has been made
IdleSearch == search_results = <<>>

IdleRetry == /\ operation = "none"
             /\ call_pc = "idle"
             /\ attempt_number = 0
             /\ embedding_attempt = 0
             /\ call_log = <<>>

IdleSanitize == /\ filename = <<>>
                /\ safe_filename = <<>>

IdleRate == /\ redis_key = <<>>
            /\ call_state = <<>>
            /\ allowed_calls = 0

IdleValidator == output_check = <<>>

InitLLM ==
    /\ IdleAssist
    /\ IdleProc
    /\ IdleStore
    /\ IdleLabels
    /\ IdleValidator
    /\ IdleRate
    /\ IdleSanitize
    /\ IdleRetry
    /\ IdleSearch
    /\ IdleLabeler
    /\ IdlePrompt
    /\ mode \in TaskMode
    /\ \/ output \in Outputs(mode) /\ error_context = <<"x">>
       \/ output = <<>> /\ error_context \in ErrorContexts
    /\ generation = <<>>
    /\ fallback = <<>>
    /\ fallback_check = <<>>

\* is_valid, error_msg = llm_service.validate_generation(output, mode)
ValidateGeneration ==
    /\ generation = <<>>
    /\ generation' = <<validate_generation(output, mode)>>
    /\ UNCHANGED <<mode, output, error_context, fallback, fallback_check>>
    /\ UNCHANGED <<assistVars, procVars, storeVars, labelVars, promptVars, labelerVars, searchVars, retryVars, sanitizeVars, rateVars, validatorVars>>

\* llm_service.fallback_response(mode, error_context)
FallbackResponse ==
    /\ fallback = <<>>
    /\ fallback' = <<fallback_response(mode, error_context)>>
    /\ UNCHANGED <<mode, output, error_context, generation, fallback_check>>
    /\ UNCHANGED <<assistVars, procVars, storeVars, labelVars, promptVars, labelerVars, searchVars, retryVars, sanitizeVars, rateVars, validatorVars>>

\* validate_generation applied to the fallback text
ValidateFallback ==
    /\ fallback # <<>>
    /\ fallback_check = <<>>
    /\ fallback_check' = <<validate_generation(fallback[1], mode)>>
    /\ UNCHANGED <<mode, output, error_context, generation, fallback>>
    /\ UNCHANGED <<assistVars, procVars, storeVars, labelVars, promptVars, labelerVars, searchVars, retryVars, sanitizeVars, rateVars, validatorVars>>

NextLLM == ValidateGeneration \/ FallbackResponse \/ ValidateFallback

SpecLLM == InitLLM /\ [][NextLLM]_vars

Valid == [is_valid |-> TRUE, error_msg |-> <<>>]

\* C2: for every defined mode, validate_generation(fallback_response(mode, "x"), mode)
\* is (True, "")
C2_FallbackSelfValid ==
    (error_context = <<"x">> /\ fallback_check # <<>>) => fallback_check = <<Valid>>

C2_Witness ==
    /\ error_context = <<"x">>
    /\ fallback_check = <<Valid>>
    /\ mode = "STUCK_DIAGNOSIS"

\* C3 (as claimed): for every mode and every error_context, the fallback text
\* passes validate_generation
C3_FallbackAlwaysValid ==
    fallback_check # <<>> => fallback_check = <<Valid>>

\* the output lacks some required heading of the mode
MissesHeading ==
    \E i \in 1..4 : \A k \in DOMAIN output : output[k] # required_sections(mode)[i]

\* C11: an output missing a required heading is rejected with the reason
\* "Missing required section" naming the first missing heading, also when it
\* contains a first-person phrase, a claim phrase or more than 300 words
C11_MissingSectionFirst ==
    (generation # <<>> /\ MissesHeading) =>
        \E i \in 1..4 :
            /\ \A k \in DOMAIN output : output[k] # required_sections(mode)[i]
            /\ \A j \in 1..(i - 1) :
                  \E k \in DOMAIN output : output[k] = required_sections(mode)[j]
            /\ generation[1] =
                  [is_valid |-> FALSE,
                   error_msg |-> <<"Missing required section:", required_sections(mode)[i]>>]

C11_Witness ==
    /\ generation # <<>>
    /\ MissesHeading
    /\ \E k \in DOMAIN output : output[k] = "I think"
    /\ \E k \in DOMAIN output : output[k] = "<300 plain words>"
    /\ generation[1].error_msg = <<"Missing required section:", "### 2. Supporting Rationale">>

\* the output has every required heading, neither marker, and a claim phrase
UnsupportedClaim ==
    /\ \A i \in 1..4 : \E k \in DOMAIN output : output[k] = required_sections(mode)[i]
    /\ \A k \in DOMAIN output :
          output[k] \notin {"**Source", "[No relevant source",
              "[No relevant source found - insufficient context in document corpus]"}
    /\ \E k \in DOMAIN output :
          LowerOf(output[k]) \in {"research shows", "studies indicate", "evidence suggests"}

\* C12: an output with all required headings, neither a citation marker nor a
\* no-source marker, and a claim-indicator phrase in any case is rejected
C12_UnsupportedClaimRejected ==
    (generation # <<>> /\ UnsupportedClaim) => ~generation[1].is_valid

C12_Witness ==
    /\ generation # <<>>
    /\ UnsupportedClaim
    /\ \E k \in DOMAIN output : output[k] = "Studies indicate"
    /\ generation[1].error_msg = <<"Factual claims without source citations detected">>

-----------------------------------------------------------------------------
(* routes.py: get_assistance *)

TopK == 8
MaxPerSource == 3
MaxSources == 5

\* number of elements of list s whose source_filename is f
CountSource(s, f) == Cardinality({ i \in DOMAIN s : s[i].source_filename = f })

\* variant: the per-source test is `<= 3`
diversity_filter_OffByOne(results) ==
    LET F[i \in 0..Len(results)] ==
            IF i = 0 THEN <<>>
            ELSE IF CountSource(F[i - 1], results[i].source_filename) <= MaxPerSource
                 THEN Append(F[i - 1], results[i])
                 ELSE F[i - 1]
    IN  F[Len(results)]

\* "Apply diversity filter (max 3 chunks per source)": the loop over
\* retrieved_chunks with source_counts
diversity_filter(results) ==
    LET F[i \in 0..Len(results)] ==
            IF i = 0 THEN <<>>
            ELSE IF CountSource(F[i - 1], results[i].source_filename) < MaxPerSource
                 THEN Append(F[i - 1], results[i])
                 ELSE F[i - 1]
    IN  F[Len(results)]

\* variant: the last 5 of the filtered results
top_sources_Last(filtered) ==
    SubSeq(filtered, IF Len(filtered) < MaxSources THEN 1 ELSE Len(filtered) - MaxSources + 1,
           Len(filtered))

\* filtered_chunks[:5]
top_sources(filtered) ==
    SubSeq(filtered, 1, IF Len(filtered) < MaxSources THEN Len(filtered) ELSE MaxSources)

\* variant: the validation result is ignored
checked_guidance_Unchecked(guidance, m) == guidance

\* is_valid, error_msg = validate_generation(guidance, mode);
\* if not is_valid: guidance = fallback_response(mode, error_msg)
checked_guidance(guidance, m) ==
    LET v == validate_generation(guidance, m)
    IN  IF v.is_valid THEN guidance ELSE fallback_response(m, v.error_msg)

\* the except branch: AssistResponse(guidance=fallback_response(mode, str(e)), sources=[])
error_response(m, msg) ==
    [guidance |-> fallback_response(m, msg), sources |-> <<>>, mode |-> m,
     error |-> msg]

\* The handler.  search: [ok, results] is the outcome of vector_store.search;
\* llm: [kind, text] the outcome of generate_guidance ("text", "none" for a
\* None content, "error" for a raise); scores_ok: every similarity_score lies
\* in [0, 1], so that SourceCitation(...) validates.
get_assistance(m, search, llm, scores_ok) ==
    IF ~search.ok
    THEN [prompt_sources |-> <<>>,
          response |-> error_response(m, <<"RetryError[<Future state=finished raised RuntimeError>]">>)]
    ELSE LET filtered_chunks == diversity_filter(search.results)
             sources == top_sources(filtered_chunks)
         IN  IF llm.kind = "error"
             THEN [prompt_sources |-> <<sources>>,
                   response |-> error_response(m, <<"RetryError[<Future state=finished raised RuntimeError>]">>)]
             ELSE IF llm.kind = "none"
             THEN [prompt_sources |-> <<sources>>,
                   response |-> error_response(m, <<"argument of type 'NoneType' is not iterable">>)]
             ELSE IF sources # <<>> /\ ~scores_ok
             THEN [prompt_sources |-> <<sources>>,
                   response |-> error_response(m, <<"1 validation error for SourceCitation similarity_score Input should be greater than or equal to 0">>)]
             ELSE [prompt_sources |-> <<sources>>,
                   response |-> [guidance |-> checked_guidance(llm.text, m),
                                 sources |-> sources, mode |-> m, error |-> <<>>]]

-----------------------------------------------------------------------------
(* Specification SpecAssist: /assist requests with every outcome of the     *)
(* external calls                                                          *)

NumFiles == 2

\* source_filename values; files are interchangeable, so they are numbered
Filenames == 1..NumFiles

\* ranked results of index.query(top_k=8): chunk_id is the rank.  Lists are
\* drawn up to renaming of the files: file k + 1 first appears after file k.
RetrievedLists ==
    UNION { { [i \in 1..n |-> [chunk_id |-> i, source_filename |-> f[i]]] :
                f \in { g \in [1..n -> Filenames] :
                          \A i \in 1..n :
                             g[i] = 1 \/ \E j \in 1..(i - 1) : g[j] = g[i] - 1 } } :
            n \in 0..TopK }

\* texts the completion call returns for mode m
Completions(m) ==
    { required_sections(m) \o <<"**Source", "guidance">>,
      required_sections(m) \o <<"[No relevant source", "guidance">>,
      required_sections(m) \o <<"guidance">>,
      <<ModeHeading(m), "### 1. Likely Next Move", "guidance">>,
      required_sections(m) \o <<"**Source", "I would">>,
      required_sections(m) \o <<"Evidence suggests">>,
      required_sections(m) \o <<"**Source", "<300 plain words>">>,
      <<>> }

\* a request is pending; the outcomes of its external calls are drawn here
InitAssist ==
    /\ IdleLLM
    /\ IdleProc
    /\ IdleStore
    /\ IdleLabels
    /\ IdleValidator
    /\ IdleRate
    /\ IdleSanitize
    /\ IdleRetry
    /\ IdleSearch
    /\ IdleLabeler
    /\ IdlePrompt
    /\ \E m \in TaskMode, ok \in BOOLEAN, results \in RetrievedLists,
          kind \in {"text", "none", "error"}, scores_ok \in BOOLEAN :
         \E text \in IF kind = "text" THEN Completions(m) ELSE {<<>>} :
           /\ request = <<[mode |-> m, scores_ok |-> scores_ok]>>
           /\ retrieved_chunks = [ok |-> ok, results |-> IF ok THEN results ELSE <<>>]
           /\ completion = [kind |-> IF ok THEN kind ELSE "error",
                            text |-> IF ok THEN text ELSE <<>>]
    /\ prompt_sources = <<>>
    /\ response = <<>>

GetAssistance ==
    /\ request # <<>>
    /\ response = <<>>
    /\ LET r == get_assistance(request[1].mode, retrieved_chunks, completion,
                               request[1].scores_ok)
       IN  /\ prompt_sources' = r.prompt_sources
           /\ response' = <<r.response>>
    /\ UNCHANGED <<request, retrieved_chunks, completion>>
    /\ UNCHANGED <<llmVars, procVars, storeVars, labelVars, promptVars, labelerVars, searchVars, retryVars, sanitizeVars, rateVars, validatorVars>>

NextAssist == GetAssistance

SpecAssist == InitAssist /\ [][NextAssist]_vars

\* C1: the guidance of every response of get_assistance passes
\* validate_generation for the request's mode, also when retrieval or the
\* completion call raised
C1_ResponseValidated ==
    response # <<>> =>
        validate_generation(response[1].guidance, response[1].mode) = Valid

\* a completion that failed validation was replaced by the fallback
C1_Witness ==
    /\ response # <<>>
    /\ completion.kind = "text"
    /\ response[1].error = <<>>
    /\ ~validate_generation(completion.text, response[1].mode).is_valid
    /\ response[1].guidance # completion.text

\* C10: the sources passed to the prompt and cited in the response hold at
\* most 3 results per source_filename and at most 5 results in total
C10_DiversityCap ==
    /\ \A i \in DOMAIN prompt_sources :
          /\ Len(prompt_sources[i]) <= MaxSources
          /\ \A f \in Filenames : CountSource(prompt_sources[i], f) <= MaxPerSource
    /\ response # <<>> =>
          /\ Len(response[1].sources) <= MaxSources
          /\ \A f \in Filenames : CountSource(response[1].sources, f) <= MaxPerSource

\* eight results of one file were retrieved; three of them were cited
C10_Witness ==
    /\ response # <<>>
    /\ retrieved_chunks.ok
    /\ Len(retrieved_chunks.results) = TopK
    /\ \E f \in Filenames : CountSource(retrieved_chunks.results, f) = TopK
    /\ Len(response[1].sources) = MaxPerSource

\* the scan that stops once MaxSources results are accepted: a result is
\* accepted if fewer than MaxPerSource accepted results share its file
StoppingScan(results) ==
    LET F[i \in 0..Len(results)] ==
            IF i = 0 THEN <<>>
            ELSE IF /\ Len(F[i - 1]) < MaxSources
                    /\ CountSource(F[i - 1], results[i].source_filename) < MaxPerSource
                 THEN Append(F[i - 1], results[i])
                 ELSE F[i - 1]
    IN  F[Len(results)]

\* C29: in a successful response the cited sources are the sources placed
\* in the prompt, in rank order, and both are what the scan that stops at
\* MaxSources accepted results yields
C29_CitationsArePromptSources ==
    (response # <<>> /\ response[1].error = <<>>) =>
       /\ prompt_sources = <<response[1].sources>>
       /\ response[1].sources = StoppingScan(retrieved_chunks.results)
       /\ \A i, j \in DOMAIN response[1].sources :
             i < j => response[1].sources[i].chunk_id < response[1].sources[j].chunk_id

\* more than MaxSources results passed the per-file rule; the first
\* MaxSources of them were cited
C29_Witness ==
    /\ response # <<>>
    /\ response[1].error = <<>>
    /\ Len(diversity_filter(retrieved_chunks.results)) > MaxSources
    /\ Len(response[1].sources) = MaxSources
    /\ prompt_sources = <<response[1].sources>>

\* C15 (as claimed): when retrieval returns no sources, the guidance of the
\* response carries a no-source marker, whatever the completion call returned
C15_NoSourcesAcknowledged ==
    (response # <<>> /\ retrieved_chunks.ok /\ retrieved_chunks.results = <<>>) =>
        \E k \in DOMAIN response[1].guidance :
            \/ Embeds(response[1].guidance[k], "[No relevant source")
            \/ response[1].guidance[k] =
                  "[No relevant sources found in user's document corpus]"

-----------------------------------------------------------------------------
(* document_processor.py: DocumentProcessor                                *)
(*                                                                         *)
(* A text is the list of its tiktoken tokens.  A token is an integer whose *)
(* absolute value identifies it; a negative token decodes to whitespace    *)
(* only.  decode() followed by str.strip() therefore removes the leading   *)
(* and trailing negative tokens of a span.                                 *)

CHUNK_SIZE == 400
CHUNK_OVERLAP == 50

IsSpace(t) == t < 0

\* encoding.decode(chunk_tokens).strip(), as tokens
Strip(s) ==
    LET solid == { i \in DOMAIN s : ~IsSpace(s[i]) }
    IN  IF solid = {} THEN <<>>
        ELSE SubSeq(s, CHOOSE i \in solid : \A j \in solid : i <= j,
                       CHOOSE i \in solid : \A j \in solid : j <= i)

\* variant: the window advances by CHUNK_SIZE
chunk_spans_NoOverlap(n, start, chunk_index) ==
    LET step == CHUNK_SIZE
        passes == IF start < n THEN (n - start + step - 1) \div step ELSE 0
    IN  [k \in 1..passes |->
            LET s0 == start + (k - 1) * step
            IN  [start |-> s0,
                 end |-> IF s0 + CHUNK_SIZE < n THEN s0 + CHUNK_SIZE ELSE n,
                 chunk_index |-> chunk_index + k - 1]]

\* variant: the loop runs only while a full window fits
chunk_spans_DropTail(n, start, chunk_index) ==
    LET step == CHUNK_SIZE - CHUNK_OVERLAP
        passes == IF start + CHUNK_SIZE <= n
                  THEN (n - start - CHUNK_SIZE) \div step + 1 ELSE 0
    IN  [k \in 1..passes |->
            LET s0 == start + (k - 1) * step
            IN  [start |-> s0,
                 end |-> IF s0 + CHUNK_SIZE < n THEN s0 + CHUNK_SIZE ELSE n,
                 chunk_index |-> chunk_index + k - 1]]

\* the while loop of _chunk_text over n tokens, entered with `start` and
\* `chunk_index`: pass k begins at start + (k-1) * (CHUNK_SIZE - CHUNK_OVERLAP)
\* and the loop makes a pass for every such position below n; each pass
\* yields the window's start, its end min(start + CHUNK_SIZE, n) and its
\* chunk_index
chunk_spans(n, start, chunk_index) ==
    LET step == CHUNK_SIZE - CHUNK_OVERLAP
        passes == IF start < n THEN (n - start + step - 1) \div step ELSE 0
    IN  [k \in 1..passes |->
            LET s0 == start + (k - 1) * step
            IN  [start |-> s0,
                 end |-> IF s0 + CHUNK_SIZE < n THEN s0 + CHUNK_SIZE ELSE n,
                 chunk_index |-> chunk_index + k - 1]]

\* _chunk_text(text, page_number); chunk_tokens records the local variable
\* of that name, content is the chunk's stored text
chunk_text(tokens, page_number) ==
    LET spans == chunk_spans(Len(tokens), 0, 0)
    IN  [k \in DOMAIN spans |->
            LET chunk_tokens == SubSeq(tokens, spans[k].start + 1, spans[k].end)
            IN  [content |-> Strip(chunk_tokens),
                 chunk_tokens |-> chunk_tokens,
                 chunk_index |-> spans[k].chunk_index,
                 page_number |-> page_number]]

RECURSIVE pdf_chunks(_, _)
\* the page loop of process_pdf: pages whose text is blank are skipped
pdf_chunks(pages, page_num) ==
    IF page_num > Len(pages) THEN <<>>
    ELSE (IF Strip(pages[page_num]) # <<>>
          THEN chunk_text(pages[page_num], page_num)
          ELSE <<>>)
         \o pdf_chunks(pages, page_num + 1)

process_pdf(pages) == pdf_chunks(pages, 1)

\* process_text: the whole file is one text; page_number stays None (0)
process_text(pages) == chunk_text(pages[1], 0)

RECURSIVE JoinBlocks(_)
\* " ".join(text_blocks): a whitespace token between consecutive blocks
JoinBlocks(blocks) ==
    IF blocks = <<>> THEN <<>>
    ELSE IF Len(blocks) = 1 THEN blocks[1]
    ELSE blocks[1] \o <<-1000000>> \o JoinBlocks(Tail(blocks))

\* process_subtitle: the cue texts joined by spaces, then chunked
process_subtitle(pages) == chunk_text(JoinBlocks(pages), 0)

-----------------------------------------------------------------------------
(* Specification SpecProc: DocumentProcessor applied to drawn files        *)

MaxTokens == 760
MaxSpaces == 1
MaxPages == 2

\* a text of n tokens whose tokens at the positions in ws are whitespace;
\* `base` keeps the tokens of different pages apart
TextOf(n, ws, base) == [i \in 1..n |-> IF i \in ws THEN 0 - (base + i) ELSE base + i]

\* positions where whitespace matters: the ends of the text and of a window
EdgePositions(n) ==
    { p \in {1, 2, CHUNK_SIZE - CHUNK_OVERLAP, CHUNK_SIZE - CHUNK_OVERLAP + 1,
             CHUNK_SIZE, n} : p <= n }

Texts(base) ==
    UNION { { TextOf(n, ws, base) :
                ws \in { w \in SUBSET EdgePositions(n) : Cardinality(w) <= MaxSpaces } } :
            n \in 0..MaxTokens }

\* page texts of a PDF (pages repeat the shapes that matter for indexing)
PageTexts(base) ==
    { TextOf(n, ws, base) :
        n \in {0, 1, CHUNK_SIZE - CHUNK_OVERLAP + 1},
        ws \in {{}, {1}} }

PdfFiles ==
    UNION { { [ext |-> "pdf", pages |-> [i \in 1..k |-> pg[i]]] :
                pg \in [1..k -> PageTexts(0)] } : k \in 0..MaxPages }

InitProc ==
    /\ IdleLLM
    /\ IdleAssist
    /\ IdleStore
    /\ IdleLabels
    /\ IdleValidator
    /\ IdleRate
    /\ IdleSanitize
    /\ IdleRetry
    /\ IdleSearch
    /\ IdleLabeler
    /\ IdlePrompt
    /\ \/ file \in PdfFiles
       \/ \E t \in Texts(0) : file = [ext |-> "txt", pages |-> <<t>>]
       \/ \E t \in PageTexts(0), u \in PageTexts(2000) :
             file = [ext |-> "srt", pages |-> <<t, u>>]
    /\ chunks = <<>>

ProcessPdf ==
    /\ file.ext = "pdf"
    /\ chunks = <<>>
    /\ chunks' = <<process_pdf(file.pages)>>
    /\ UNCHANGED <<file, llmVars, assistVars, storeVars, labelVars, promptVars, labelerVars, searchVars, retryVars, sanitizeVars, rateVars, validatorVars>>

ProcessText ==
    /\ file.ext = "txt"
    /\ file.pages # <<>>
    /\ chunks = <<>>
    /\ chunks' = <<process_text(file.pages)>>
    /\ UNCHANGED <<file, llmVars, assistVars, storeVars, labelVars, promptVars, labelerVars, searchVars, retryVars, sanitizeVars, rateVars, validatorVars>>

ProcessSubtitle ==
    /\ file.ext = "srt"
    /\ chunks = <<>>
    /\ chunks' = <<process_subtitle(file.pages)>>
    /\ UNCHANGED <<file, llmVars, assistVars, storeVars, labelVars, promptVars, labelerVars, searchVars, retryVars, sanitizeVars, rateVars, validatorVars>>

NextProc == ProcessPdf \/ ProcessText \/ ProcessSubtitle

SpecProc == InitProc /\ [][NextProc]_vars

\* C5 (as claimed): on every ingestion path the chunk_index values of one
\* document are 0, 1, 2, ... in production order
C5_ChunkIndexSequence ==
    \A r \in DOMAIN chunks :
        \A i \in DOMAIN chunks[r] : chunks[r][i].chunk_index = i - 1

\* the chunk list of one _chunk_text call over a whole text (process_text)
TextChunks == IF file.ext = "txt" /\ chunks # <<>> THEN chunks[1] ELSE <<>>

\* number of tokens two spans have in common (tokens of a text are distinct)
Shared(a, b) ==
    Cardinality({ a[i] : i \in DOMAIN a } \cap { b[i] : i \in DOMAIN b })

\* C8 (as claimed): every chunk but the last has exactly CHUNK_SIZE tokens
\* and consecutive chunks share exactly CHUNK_OVERLAP tokens
C8_SizeAndOverlapExact ==
    \A i \in 1..(Len(TextChunks) - 1) :
        /\ Len(TextChunks[i].chunk_tokens) = CHUNK_SIZE
        /\ Shared(TextChunks[i].chunk_tokens, TextChunks[i + 1].chunk_tokens) = CHUNK_OVERLAP

\* C8 (amended): a chunk with a successor has exactly CHUNK_SIZE tokens when
\* the successor has at least CHUNK_OVERLAP tokens, and otherwise
\* CHUNK_SIZE - CHUNK_OVERLAP tokens more than the successor; consecutive
\* chunks share min(CHUNK_OVERLAP, size of the later chunk) tokens
C8_SizeAndOverlap ==
    \A i \in 1..(Len(TextChunks) - 1) :
        LET this == TextChunks[i].chunk_tokens
            succ == TextChunks[i + 1].chunk_tokens
        IN  /\ Len(this) = IF Len(succ) >= CHUNK_OVERLAP THEN CHUNK_SIZE
                           ELSE CHUNK_SIZE - CHUNK_OVERLAP + Len(succ)
            /\ Shared(this, succ) = IF Len(succ) >= CHUNK_OVERLAP THEN CHUNK_OVERLAP
                                    ELSE Len(succ)

\* three chunks, the last shorter than the overlap
C8_Witness ==
    /\ Len(TextChunks) = 3
    /\ Len(TextChunks[3].chunk_tokens) < CHUNK_OVERLAP
    /\ Len(TextChunks[1].chunk_tokens) = CHUNK_SIZE

\* s without its first k elements
DropFirst(s, k) == IF Len(s) <= k THEN <<>> ELSE SubSeq(s, k + 1, Len(s))

RECURSIVE Concat(_)
Concat(ss) == IF ss = <<>> THEN <<>> ELSE Head(ss) \o Concat(Tail(ss))

\* first element whole, later elements without their first CHUNK_OVERLAP tokens
Rebuild(parts) ==
    Concat([i \in DOMAIN parts |->
              IF i = 1 THEN parts[i] ELSE DropFirst(parts[i], CHUNK_OVERLAP)])

NoEdgeSpace(s) == s = <<>> \/ (~IsSpace(s[1]) /\ ~IsSpace(s[Len(s)]))

-----------------------------------------------------------------------------
(* vector_store.py: VectorStore; routes.py: upload_document, delete_document *)

BATCH_SIZE == 100

\* the (chunk_index, page_number) of the chunks _chunk_text makes of n tokens
chunk_keys(n, page_number) ==
    LET spans == chunk_spans(n, 0, 0)
    IN  [k \in DOMAIN spans |->
            [chunk_index |-> spans[k].chunk_index, page_number |-> page_number]]

RECURSIVE pdf_chunk_keys(_, _)
\* process_pdf over pages given by their token counts (0: a blank page)
pdf_chunk_keys(pages, page_num) ==
    IF page_num > Len(pages) THEN <<>>
    ELSE (IF pages[page_num] > 0 THEN chunk_keys(pages[page_num], page_num) ELSE <<>>)
         \o pdf_chunk_keys(pages, page_num + 1)

\* the dispatch on file_ext in upload_document
process_file(f) ==
    IF f.ext = "pdf" THEN pdf_chunk_keys(f.pages, 1) ELSE chunk_keys(f.pages[1], 0)

\* variant: the id leaves the document out
make_vectors_NoDocumentId(chunk_dicts, user_id, document_id) ==
    [k \in DOMAIN chunk_dicts |->
        [id |-> <<user_id, 0, chunk_dicts[k].chunk_index>>,
         user_id |-> user_id,
         document_id |-> document_id,
         chunk_index |-> chunk_dicts[k].chunk_index,
         page_number |-> chunk_dicts[k].page_number]]

\* the vectors list built by upsert_chunks: id is f"{user_id}_{document_id}_{chunk_index}"
make_vectors(chunk_dicts, user_id, document_id) ==
    [k \in DOMAIN chunk_dicts |->
        [id |-> <<user_id, document_id, chunk_dicts[k].chunk_index>>,
         user_id |-> user_id,
         document_id |-> document_id,
         chunk_index |-> chunk_dicts[k].chunk_index,
         page_number |-> chunk_dicts[k].page_number]]

\* index.upsert(vectors=batch): a record replaces the record with its id;
\* of two records of the batch with one id the later one stays
index_upsert(idx, batch) ==
    LET kept == { k \in DOMAIN batch :
                    \A j \in DOMAIN batch : batch[j].id = batch[k].id => j <= k }
        ids == { batch[k].id : k \in DOMAIN batch }
    IN  { r \in idx : r.id \notin ids } \cup { batch[k] : k \in kept }

\* index.delete(filter={'user_id': ..., 'document_id': ...})
index_delete(idx, user_id, document_id) ==
    { r \in idx : ~(r.user_id = user_id /\ r.document_id = document_id) }

\* similarity of a record to the query embedding: an order on the records
\* that depends on the query
Similarity(q, r) ==
    IF q = 1 THEN 0 - (r.document_id * 1000 + r.chunk_index)
    ELSE r.document_id * 1000 + r.chunk_index

\* the n records of a set that are most similar to the query, best first
TopHits(hits, q, n) ==
    LET F[k \in 0..n] ==
            IF k = 0 THEN <<>>
            ELSE LET prev == F[k - 1]
                     rest == hits \ { prev[j] : j \in DOMAIN prev }
                 IN  Append(prev, CHOOSE r \in rest :
                                     \A o \in rest : Similarity(q, o) <= Similarity(q, r))
    IN  F[n]

\* variant: the query carries no user_id filter
index_query_Unfiltered(idx, q, top_k, user_id) ==
    LET hits == idx
    IN  TopHits(hits, q, IF Cardinality(hits) < top_k THEN Cardinality(hits) ELSE top_k)

\* index.query(vector, top_k, filter={'user_id': user_id}): the top_k records
\* of that user_id by similarity
index_query(idx, q, top_k, user_id) ==
    LET hits == { r \in idx : r.user_id = user_id }
    IN  TopHits(hits, q, IF Cardinality(hits) < top_k THEN Cardinality(hits) ELSE top_k)

\* VectorStore.search(query, user_id, top_k): the matches as RetrievalResults
vector_store_search(idx, q, user_id, top_k) ==
    LET matches == index_query(idx, q, top_k, user_id)
    IN  [k \in DOMAIN matches |->
            [chunk_id |-> matches[k].id,
             document_id |-> matches[k].document_id,
             chunk_index |-> matches[k].chunk_index,
             page_number |-> matches[k].page_number]]

RecordsOf(idx, document_id) == { r \in idx : r.document_id = document_id }

RowsOf(docs, document_id) == { row \in docs : row.id = document_id }

-----------------------------------------------------------------------------
(* Specification SpecStore: uploads and deletes, every external step may fail *)

NumUsers == 2

Users == 1..NumUsers

\* uploaded files by the token counts of their pages
\* query embeddings
Queries == 1..2

StoreFiles ==
    { [ext |-> "txt", pages |-> <<n>>] : n \in {0, 1, CHUNK_SIZE - CHUNK_OVERLAP + 1} }
    \cup { [ext |-> "pdf", pages |-> pg] :
             pg \in { <<1>>, <<1, 1>>, <<BATCH_SIZE * (CHUNK_SIZE - CHUNK_OVERLAP), 1>> } }

InitStore ==
    /\ IdleLLM
    /\ IdleAssist
    /\ IdleProc
    /\ IdleStore
    /\ IdleLabels
    /\ IdleValidator
    /\ IdleRate
    /\ IdleSanitize
    /\ IdleRetry
    /\ IdleSearch
    /\ IdleLabeler
    /\ IdlePrompt

\* upload_document up to the call of index.upsert: the file is processed and
\* every chunk embedded; a failure there ends the request with a 500
UploadStart(u, d, f, ok) ==
    /\ uploads[d].pc = "new"
    /\ \A e \in DocIds : e < d => uploads[e].pc # "new"
    /\ LET chunk_dicts == process_file(f)
           vectors == make_vectors(chunk_dicts, u, d)
       IN  uploads' = [uploads EXCEPT ![d] =
              IF ok
              THEN [pc |-> IF vectors = <<>> THEN "commit" ELSE "upsert",
                    user_id |-> u, vectors |-> vectors, next |-> 0,
                    chunk_count |-> Len(chunk_dicts)]
              ELSE [pc |-> "failed", user_id |-> u, vectors |-> <<>>, next |-> 0,
                    chunk_count |-> 0]]
    /\ UNCHANGED <<index, documents, llmVars, assistVars, procVars, labelVars, promptVars, labelerVars, searchVars, retryVars, sanitizeVars, rateVars, validatorVars>>

\* one round of "for i in range(0, len(vectors), BATCH_SIZE)" that succeeds
UpsertBatch(d) ==
    /\ uploads[d].pc = "upsert"
    /\ LET up == uploads[d]
           last == IF up.next + BATCH_SIZE < Len(up.vectors)
                   THEN up.next + BATCH_SIZE ELSE Len(up.vectors)
       IN  /\ index' = index_upsert(index, SubSeq(up.vectors, up.next + 1, last))
           /\ uploads' = [uploads EXCEPT ![d].next = up.next + BATCH_SIZE,
                                         ![d].pc = IF up.next + BATCH_SIZE < Len(up.vectors)
                                                   THEN "upsert" ELSE "commit"]
    /\ UNCHANGED <<documents, llmVars, assistVars, procVars, labelVars, promptVars, labelerVars, searchVars, retryVars, sanitizeVars, rateVars, validatorVars>>

\* index.upsert raises: db.rollback(), HTTP 500
UpsertFail(d) ==
    /\ uploads[d].pc = "upsert"
    /\ uploads' = [uploads EXCEPT ![d].pc = "failed"]
    /\ UNCHANGED <<index, documents, llmVars, assistVars, procVars, labelVars, promptVars, labelerVars, searchVars, retryVars, sanitizeVars, rateVars, validatorVars>>

\* db.add(db_document); db.commit(): the row is stored, HTTP 200
CommitUpload(d) ==
    /\ uploads[d].pc = "commit"
    /\ documents' = documents \cup
          { [id |-> d, user_id |-> uploads[d].user_id,
             chunk_count |-> uploads[d].chunk_count] }
    /\ uploads' = [uploads EXCEPT ![d].pc = "done"]
    /\ UNCHANGED <<index, llmVars, assistVars, procVars, labelVars, promptVars, labelerVars, searchVars, retryVars, sanitizeVars, rateVars, validatorVars>>

\* db.commit() raises: db.rollback(), HTTP 500
CommitFail(d) ==
    /\ uploads[d].pc = "commit"
    /\ uploads' = [uploads EXCEPT ![d].pc = "failed"]
    /\ UNCHANGED <<index, documents, llmVars, assistVars, procVars, labelVars, promptVars, labelerVars, searchVars, retryVars, sanitizeVars, rateVars, validatorVars>>

\* delete_document by the owner of an existing row; outcome says which
\* step raises, if any
DeleteDocument(u, d, outcome) ==
    /\ \E row \in documents : row.id = d /\ row.user_id = u
    /\ index' = IF outcome = "index_fails" THEN index ELSE index_delete(index, u, d)
    /\ documents' = IF outcome = "ok"
                    THEN { row \in documents : row.id # d }
                    ELSE documents
    /\ UNCHANGED <<uploads, llmVars, assistVars, procVars, labelVars, promptVars, labelerVars, searchVars, retryVars, sanitizeVars, rateVars, validatorVars>>

\* vector_store.search(query, user_id, top_k) on the index as it is now; a
\* search that raises returns nothing
Search(u, q, top_k, ok) ==
    /\ search_results' =
          <<[user_id |-> u,
             results |-> IF ok THEN vector_store_search(index, q, u, top_k) ELSE <<>>]>>
    /\ UNCHANGED <<index, documents, uploads, llmVars, assistVars, procVars, labelVars, promptVars, labelerVars, retryVars, sanitizeVars, rateVars, validatorVars>>

NextStore ==
    \/ \E u \in Users, d \in DocIds, f \in StoreFiles, ok \in BOOLEAN : UploadStart(u, d, f, ok)
    \/ \E d \in DocIds : UpsertBatch(d)
    \/ \E d \in DocIds : UpsertFail(d)
    \/ \E d \in DocIds : CommitUpload(d)
    \/ \E d \in DocIds : CommitFail(d)
    \/ \E u \in Users, d \in DocIds, outcome \in {"ok", "index_fails", "db_fails"} :
          DeleteDocument(u, d, outcome)

SpecStore == InitStore /\ [][NextStore]_vars

\* C6 (as claimed): when upload_document succeeds for a document of n chunks
\* the index holds exactly n records of that document, and the stored
\* chunk_count is the number of its live records
C6_OneRecordPerChunk ==
    [][ \A d \in DocIds :
          (uploads[d].pc = "commit" /\ uploads'[d].pc = "done") =>
             /\ Cardinality(RecordsOf(index', d)) = uploads[d].chunk_count
             /\ \A row \in RowsOf(documents', d) :
                   row.chunk_count = Cardinality(RecordsOf(index', d)) ]_vars

NoRequestInFlight == \A d \in DocIds : uploads[d].pc \notin {"upsert", "commit"}

\* C7 (as claimed): between requests, whatever steps failed, a document has
\* records in the index exactly if it has a row (a row of zero chunks has
\* no records to show)
C7_StoresConsistent ==
    NoRequestInFlight =>
        \A d \in DocIds :
            /\ RecordsOf(index, d) # {} => RowsOf(documents, d) # {}
            /\ \A row \in RowsOf(documents, d) :
                  row.chunk_count > 0 => RecordsOf(index, d) # {}


\* files of the uploads that searches run against
SearchFiles ==
    { [ext |-> "txt", pages |-> <<CHUNK_SIZE - CHUNK_OVERLAP + 1>>],
      [ext |-> "pdf", pages |-> <<1, 1>>] }

\* uploads and deletes by several owners, and searches at any moment
NextSearch ==
    \/ \E u \in Users, d \in DocIds, f \in SearchFiles, ok \in BOOLEAN : UploadStart(u, d, f, ok)
    \/ \E d \in DocIds : UpsertBatch(d)
    \/ \E d \in DocIds : UpsertFail(d)
    \/ \E d \in DocIds : CommitUpload(d)
    \/ \E d \in DocIds : CommitFail(d)
    \/ \E u \in Users, d \in DocIds, outcome \in {"ok", "index_fails", "db_fails"} :
          DeleteDocument(u, d, outcome)
    \/ \E u \in Users, q \in Queries, top_k \in {1, TopK}, ok \in BOOLEAN :
          Search(u, q, top_k, ok)

SpecSearch == InitStore /\ [][NextSearch]_vars

\* C19: after any uploads by several owners, every result of
\* search(query, user_id) is a record that an upload of that user_id upserted
C19_SearchOwnerOnly ==
    \A i \in DOMAIN search_results :
        \A k \in DOMAIN search_results[i].results :
            LET r == search_results[i].results[k]
            IN  /\ uploads[r.document_id].user_id = search_results[i].user_id
                /\ \E j \in DOMAIN uploads[r.document_id].vectors :
                      uploads[r.document_id].vectors[j].id = r.chunk_id

\* both owners have records in the index and a search returned one
C19_Witness ==
    /\ \E r \in index : r.user_id = 1
    /\ \E r \in index : r.user_id = 2
    /\ search_results # <<>>
    /\ search_results[1].results # <<>>

-----------------------------------------------------------------------------
(* chunk_labeling.py: ChunkLabelingService.save_label;                     *)
(* document_processor.py: process_and_label_chunks; labeling.py            *)

\* what a save writes besides the flags: role, tags, confidence, coverage
\* three LabelResults of auto_label_chunk, also used as request payloads
LabelResult(t) ==
    CASE t = 0 -> [rhetorical_role |-> "argument", topic_tags |-> <<"NLP">>,
                   confidence_label |-> "high", coverage_score |-> 80,
                   token_count |-> 12]
      [] t = 1 -> [rhetorical_role |-> "example", topic_tags |-> <<>>,
                   confidence_label |-> "low", coverage_score |-> 50,
                   token_count |-> 400]
      [] t = 2 -> [rhetorical_role |-> "unknown",
                   topic_tags |-> <<"Deep Learning", "NLP">>,
                   confidence_label |-> "medium", coverage_score |-> 70,
                   token_count |-> 57]

LabelPayloads == {LabelResult(t) : t \in 0..2}

\* auto_label_chunk's results for the chunks of the document, per content
AutoResults ==
    {[k \in LabelKeys |-> LabelResult((k[3] + t) % 3)] : t \in 0..2}

\* save_label: an existing row is updated in place, else a row is created
save_label(labels, chunk_id, payload, is_auto_labeled, human_verified) ==
    IF labels[chunk_id] # <<>>
    THEN [labels EXCEPT ![chunk_id] =
            << [ @[1] EXCEPT !.rhetorical_role = payload.rhetorical_role,
                             !.topic_tags = payload.topic_tags,
                             !.confidence_label = payload.confidence_label,
                             !.coverage_score = payload.coverage_score,
                             !.human_verified = human_verified ] >>]
    ELSE [labels EXCEPT ![chunk_id] =
            << [ rhetorical_role |-> payload.rhetorical_role,
                 topic_tags |-> payload.topic_tags,
                 confidence_label |-> payload.confidence_label,
                 coverage_score |-> payload.coverage_score,
                 is_auto_labeled |-> is_auto_labeled,
                 human_verified |-> human_verified ] >>]

RECURSIVE label_loop_Abort(_, _, _, _)
label_loop_Abort(labels, i, auto, failing) ==
    IF i >= NumLabelChunks \/ <<1, 1, i>> \in failing THEN labels
    ELSE label_loop_Abort(save_label(labels, <<1, 1, i>>, auto[<<1, 1, i>>], TRUE, FALSE),
                          i + 1, auto, failing)

RECURSIVE label_loop(_, _, _, _)
\* the loop of process_and_label_chunks over the chunk indices i, i + 1, ...:
\* auto[k] is auto_label_chunk's result for chunk k; a save of a chunk in
\* `failing` raises and is logged
label_loop(labels, i, auto, failing) ==
    IF i >= NumLabelChunks THEN labels
    ELSE label_loop(IF <<1, 1, i>> \in failing THEN labels
                    ELSE save_label(labels, <<1, 1, i>>, auto[<<1, 1, i>>], TRUE, FALSE),
                    i + 1, auto, failing)

\* the chunks process_and_label_chunks returns: every chunk's metadata carries
\* the five fields of its auto_label_chunk result, set before the save is tried
enriched_chunks(auto) ==
    [k \in LabelKeys |->
        [rhetorical_role |-> auto[k].rhetorical_role,
         topic_tags |-> auto[k].topic_tags,
         confidence_label |-> auto[k].confidence_label,
         coverage_score |-> auto[k].coverage_score,
         token_count |-> auto[k].token_count]]

-----------------------------------------------------------------------------
(* Specification SpecLabel: label saves on the chunks of one stored document *)

\* document 1 of user 1 is stored with NumLabelChunks chunks
InitLabel ==
    /\ IdleLLM
    /\ IdleAssist
    /\ IdleProc
    /\ index = { [id |-> k, user_id |-> 1, document_id |-> 1,
                  chunk_index |-> k[3], page_number |-> 0] : k \in LabelKeys }
    /\ documents = { [id |-> 1, user_id |-> 1, chunk_count |-> NumLabelChunks] }
    /\ uploads = [d \in DocIds |->
                    IF d = 1 THEN [NoUpload EXCEPT !.pc = "done", !.user_id = 1,
                                                   !.chunk_count = NumLabelChunks]
                    ELSE NoUpload]
    /\ IdleLabels
    /\ IdleValidator
    /\ IdleRate
    /\ IdleSanitize
    /\ IdleRetry
    /\ IdleSearch
    /\ IdleLabeler
    /\ IdlePrompt

\* process_and_label_chunks(chunks, ..., db) over the document's chunks
ProcessAndLabelChunks(auto, failing) ==
    /\ chunk_labels' = label_loop(chunk_labels, 0, auto, failing)
    /\ labeled_chunks' = <<[failing |-> failing, chunks |-> enriched_chunks(auto)]>>
    /\ UNCHANGED <<llmVars, assistVars, procVars, storeVars, promptVars, labelerVars, searchVars, retryVars, sanitizeVars, rateVars, validatorVars>>

\* POST /labels by the owner: 404 unless the document and the label exist
SaveChunkLabel(k, payload, human_verified) ==
    /\ \E row \in documents : row.id = k[2] /\ row.user_id = k[1]
    /\ chunk_labels[k] # <<>>
    /\ chunk_labels' = save_label(chunk_labels, k, payload, ~human_verified, human_verified)
    /\ UNCHANGED labeled_chunks
    /\ UNCHANGED <<llmVars, assistVars, procVars, storeVars, promptVars, labelerVars, searchVars, retryVars, sanitizeVars, rateVars, validatorVars>>

\* DELETE /labels/{chunk_id} by current_user: 403 unless the chunk_id starts
\* with the caller's id, 404 unless the label exists; else the row is deleted
DeleteChunkLabel(current_user, k) ==
    /\ k[1] = current_user
    /\ chunk_labels[k] # <<>>
    /\ chunk_labels' = [chunk_labels EXCEPT ![k] = <<>>]
    /\ UNCHANGED labeled_chunks
    /\ UNCHANGED <<llmVars, assistVars, procVars, storeVars, promptVars, labelerVars, searchVars, retryVars, sanitizeVars, rateVars, validatorVars>>

NextLabel ==
    \/ \E auto \in AutoResults, failing \in SUBSET LabelKeys :
          ProcessAndLabelChunks(auto, failing)
    \/ \E k \in LabelKeys, payload \in LabelPayloads, hv \in BOOLEAN :
          SaveChunkLabel(k, payload, hv)
    \/ \E u \in Users, k \in LabelKeys : DeleteChunkLabel(u, k)

SpecLabel == InitLabel /\ [][NextLabel]_vars

\* a step that saves labels with is_auto_labeled=True, human_verified=False
AutoLabelingSave ==
    \/ \E auto \in AutoResults, failing \in SUBSET LabelKeys :
          ProcessAndLabelChunks(auto, failing)
    \/ \E k \in LabelKeys, payload \in LabelPayloads : SaveChunkLabel(k, payload, FALSE)

\* C4 (as claimed): an auto-labeling save leaves the role, tags, confidence,
\* coverage and human_verified flag of a human-verified label unchanged
C4_VerifiedNotOverwritten ==
    [][ AutoLabelingSave =>
          \A k \in LabelKeys :
             (chunk_labels[k] # <<>> /\ chunk_labels[k][1].human_verified) =>
                chunk_labels'[k] = chunk_labels[k] ]_vars


\* C20 (as claimed): no labeling operation removes the label of a chunk
\* whose document row and embedding record still exist
C20_LabelOutlivesNoChunk ==
    [][ \A k \in LabelKeys :
          (/\ chunk_labels[k] # <<>>
           /\ \E row \in documents' : row.id = k[2]
           /\ \E r \in index' : r.id = k)
          => chunk_labels'[k] # <<>> ]_vars

\* C28 (as claimed): a stored label whose last save was a human
\* verification (every save sets human_verified, so the flag tells) is not
\* marked is_auto_labeled
C28_VerifiedNotAutoLabeled ==
    \A k \in LabelKeys :
       (chunk_labels[k] # <<>> /\ chunk_labels[k][1].human_verified) =>
          ~chunk_labels[k][1].is_auto_labeled

LabelFields ==
    {"rhetorical_role", "topic_tags", "confidence_label", "coverage_score", "token_count"}

SavedFields == {"rhetorical_role", "topic_tags", "confidence_label", "coverage_score"}

-----------------------------------------------------------------------------
(* prompt_builder.py: PromptBuilder                                        *)
(* A prompt is a text: a sequence of fragments.  "\n".join(parts) is the   *)
(* concatenation of the parts.                                             *)

SYSTEM_RULES == "CRITICAL CONSTRAINTS (MANDATORY): ... SECURITY CONSTRAINTS: ..."

IDENTITY_SCOPE == "ROLE: Cognitive assistant providing thinking-aligned guidance ..."

TASK_MODE_TEMPLATES(m) ==
    CASE m = "START" -> "MODE: START ..."
      [] m = "CONTINUE" -> "MODE: CONTINUE ..."
      [] m = "REFRAME" -> "MODE: REFRAME ..."
      [] m = "STUCK_DIAGNOSIS" -> "MODE: STUCK_DIAGNOSIS ..."
      [] m = "OUTLINE" -> "MODE: OUTLINE ..."

\* OUTPUT_FORMAT.format(mode=mode.value)
OUTPUT_FORMAT(m) ==
    CASE m = "START" -> "MANDATORY OUTPUT STRUCTURE: ## START Guidance ..."
      [] m = "CONTINUE" -> "MANDATORY OUTPUT STRUCTURE: ## CONTINUE Guidance ..."
      [] m = "REFRAME" -> "MANDATORY OUTPUT STRUCTURE: ## REFRAME Guidance ..."
      [] m = "STUCK_DIAGNOSIS" -> "MANDATORY OUTPUT STRUCTURE: ## STUCK_DIAGNOSIS Guidance ..."
      [] m = "OUTLINE" -> "MANDATORY OUTPUT STRUCTURE: ## OUTLINE Guidance ..."

\* the separator "\n---\n"
Separator == "---"

\* "[Source {idx}]"
SourceTag(idx) ==
    CASE idx = 1 -> "[Source 1]"
      [] idx = 2 -> "[Source 2]"
      [] idx = 3 -> "[Source 3]"
      [] idx = 4 -> "[Source 4]"
      [] idx = 5 -> "[Source 5]"
      [] OTHER -> "[Source n]"

\* the location of a source: page number, else timestamp, else unknown
\* (page_number 0 and timestamp "" stand for None)
location(source) ==
    IF source.page_number # 0 THEN <<"page", source.page_label>>
    ELSE IF source.timestamp # "" THEN <<"timestamp", source.timestamp>>
    ELSE <<"unknown location">>

\* variant: no sources give an empty context block
format_retrieved_context_Blank(sources) ==
    LET entry(idx) ==
            <<SourceTag(idx), "- Source:", sources[idx].source_filename>>
            \o location(sources[idx])
            \o <<"- Type:", sources[idx].content_type,
                 "- Role:", sources[idx].rhetorical_role,
                 "- Relevance Score:", sources[idx].similarity_score>>
            \o <<"- Content:">> \o sources[idx].content
        F[i \in 0..Len(sources)] == IF i = 0 THEN <<>> ELSE F[i - 1] \o entry(i)
    IN  IF sources = <<>>
        THEN <<>>
        ELSE <<"RETRIEVED SOURCES (ranked by relevance):">> \o F[Len(sources)]

\* _format_retrieved_context(sources)
format_retrieved_context(sources) ==
    LET entry(idx) ==
            <<SourceTag(idx), "- Source:", sources[idx].source_filename>>
            \o location(sources[idx])
            \o <<"- Type:", sources[idx].content_type,
                 "- Role:", sources[idx].rhetorical_role,
                 "- Relevance Score:", sources[idx].similarity_score>>
            \o <<"- Content:">> \o sources[idx].content
        F[i \in 0..Len(sources)] == IF i = 0 THEN <<>> ELSE F[i - 1] \o entry(i)
    IN  IF sources = <<>>
        THEN << "RETRIEVED SOURCES: None",
                "[No relevant sources found in user's document corpus]",
                "You MUST acknowledge this limitation in your response." >>
        ELSE <<"RETRIEVED SOURCES (ranked by relevance):">> \o F[Len(sources)]

\* str.strip() of a text is non-empty: some fragment is not whitespace
NonBlank(text) == \E i \in DOMAIN text : text[i] # " "

\* _format_user_input(editor_content, mode, additional_context)
format_user_input(editor_content, m, additional_context) ==
    <<"USER REQUEST:", "Mode:", m>>
    \o (IF NonBlank(editor_content)
        THEN <<"Current Editor Content:">> \o editor_content
        ELSE <<"Current Editor Content: [Empty - user has not started writing]">>)
    \o (IF additional_context # <<>>
        THEN <<"Additional Context:">> \o additional_context
        ELSE <<>>)

\* list.insert(i, x) of Python on a list of length Len(list): a negative i
\* counts from the end, and the position is clamped into the list
ListInsert(list, i, x) ==
    LET n == Len(list)
        j == IF i < 0 THEN (IF i + n < 0 THEN 0 ELSE i + n)
             ELSE (IF i > n THEN n ELSE i)
    IN  SubSeq(list, 1, j) \o <<x>> \o SubSeq(list, j + 1, n)

\* "\n".join(sections)
Join(sections) ==
    LET F[i \in 0..Len(sections)] == IF i = 0 THEN <<>> ELSE F[i - 1] \o sections[i]
    IN  F[Len(sections)]

\* variant: the style hints are inserted before the user input
assemble_prompt_StyleEarly(c) ==
    LET sections == << <<c.system_rules>>, <<Separator>>,
                       <<c.identity_scope>>, <<Separator>>,
                       <<c.task_mode>>, <<Separator>>,
                       c.retrieved_context, <<Separator>>,
                       c.user_input, <<Separator>>,
                       <<c.output_format>> >>
    IN  Join(IF c.style_adaptation # <<>>
             THEN ListInsert(sections, -4, <<Separator>> \o c.style_adaptation)
             ELSE sections)

\* _assemble_prompt(components)
assemble_prompt(c) ==
    LET sections == << <<c.system_rules>>, <<Separator>>,
                       <<c.identity_scope>>, <<Separator>>,
                       <<c.task_mode>>, <<Separator>>,
                       c.retrieved_context, <<Separator>>,
                       c.user_input, <<Separator>>,
                       <<c.output_format>> >>
    IN  Join(IF c.style_adaptation # <<>>
             THEN ListInsert(sections, -2, <<Separator>> \o c.style_adaptation)
             ELSE sections)

\* the PromptComponents built by build_prompt
prompt_components(a) ==
    [system_rules |-> SYSTEM_RULES,
     identity_scope |-> IDENTITY_SCOPE,
     task_mode |-> TASK_MODE_TEMPLATES(a.mode),
     retrieved_context |-> format_retrieved_context(a.retrieved_sources),
     user_input |-> format_user_input(a.editor_content, a.mode, a.additional_context),
     output_format |-> OUTPUT_FORMAT(a.mode),
     style_adaptation |-> a.style_hints]

-----------------------------------------------------------------------------
(* Specification SpecPrompt: build_prompt applied to drawn arguments *)

MaxInputLen == 2
MaxPromptSources == 2

\* fragments of caller-supplied text, some of them copies of the builder's
\* own section texts
InputFragments ==
    { " ", "draft", Separator, "USER REQUEST:", SYSTEM_RULES, OUTPUT_FORMAT("START") }

\* retrieved sources as the builder reads them; similarity_score is the score
\* as printed with two decimals
PromptSources ==
    { [source_filename |-> "a.pdf", page_number |-> 2, page_label |-> "2",
       timestamp |-> "", content_type |-> "research_paper", rhetorical_role |-> "argument",
       similarity_score |-> "0.91", content |-> <<"draft">>],
      [source_filename |-> "b.srt", page_number |-> 0, page_label |-> "",
       timestamp |-> "00:01:02", content_type |-> "video_transcript",
       rhetorical_role |-> "example", similarity_score |-> "0.50",
       content |-> <<Separator, "USER REQUEST:">>],
      [source_filename |-> "c.txt", page_number |-> 0, page_label |-> "",
       timestamp |-> "", content_type |-> "unknown", rhetorical_role |-> "background",
       similarity_score |-> "0.07", content |-> <<SYSTEM_RULES>>] }

InitPrompt ==
    /\ IdleLLM
    /\ IdleAssist
    /\ IdleProc
    /\ IdleStore
    /\ IdleLabels
    /\ IdleValidator
    /\ IdleRate
    /\ IdleSanitize
    /\ IdleRetry
    /\ IdleSearch
    /\ IdleLabeler
    /\ build_args \in
         [mode : TaskMode,
          editor_content : SeqsUpTo(InputFragments, MaxInputLen),
          retrieved_sources : SeqsUpTo(PromptSources, MaxPromptSources),
          additional_context : {<<>>, <<"draft">>, <<Separator, OUTPUT_FORMAT("START")>>},
          style_hints : {<<>>, <<"draft">>, <<Separator, "USER REQUEST:">>}]
    /\ components = <<>>
    /\ prompt = <<>>

\* prompt_builder.build_prompt(mode, editor_content, retrieved_sources,
\* additional_context, style_hints)
BuildPrompt ==
    /\ prompt = <<>>
    /\ components' = <<prompt_components(build_args)>>
    /\ prompt' = <<assemble_prompt(prompt_components(build_args))>>
    /\ UNCHANGED build_args
    /\ UNCHANGED <<llmVars, assistVars, procVars, storeVars, labelVars, labelerVars, searchVars, retryVars, sanitizeVars, rateVars, validatorVars>>

NextPrompt == BuildPrompt

SpecPrompt == InitPrompt /\ [][NextPrompt]_vars

\* the fragments of text p from position i on begin with text q
HasAt(p, i, q) == i >= 1 /\ i + Len(q) - 1 <= Len(p) /\ SubSeq(p, i, i + Len(q) - 1) = q

\* C13: the prompt starts with the system rules and holds, in this order,
\* system rules, identity/scope, the mode's task template, the retrieved
\* context, the user input, then the style hints when given, and last the
\* output format, whatever the inputs contain
C13_SectionOrder ==
    prompt # <<>> =>
        LET p == prompt[1]
            c == components[1]
            ctx == c.retrieved_context
            ui == c.user_input
            style == build_args.style_hints
            head == << SYSTEM_RULES, Separator, IDENTITY_SCOPE, Separator,
                       TASK_MODE_TEMPLATES(build_args.mode), Separator >>
            afterUi == Len(head) + Len(ctx) + 1 + Len(ui) + 1
        IN  /\ p[1] = SYSTEM_RULES
            /\ HasAt(p, 1, head)
            /\ HasAt(p, Len(head) + 1, ctx)
            /\ HasAt(p, Len(head) + Len(ctx) + 1, <<Separator>>)
            /\ HasAt(p, Len(head) + Len(ctx) + 2, ui)
            /\ IF style # <<>>
               THEN /\ HasAt(p, afterUi, <<Separator>> \o style)
                    /\ HasAt(p, afterUi + 1 + Len(style),
                             <<Separator, OUTPUT_FORMAT(build_args.mode)>>)
                    /\ Len(p) = afterUi + Len(style) + 2
               ELSE /\ HasAt(p, afterUi, <<Separator, OUTPUT_FORMAT(build_args.mode)>>)
                    /\ Len(p) = afterUi + 1

\* style hints and inputs that copy the builder's own section texts
C13_Witness ==
    /\ prompt # <<>>
    /\ build_args.style_hints = <<Separator, "USER REQUEST:">>
    /\ build_args.editor_content = <<SYSTEM_RULES, OUTPUT_FORMAT("START")>>
    /\ Len(build_args.retrieved_sources) = 2
    /\ prompt[1][Len(prompt[1])] = OUTPUT_FORMAT(build_args.mode)

\* C14: with no retrieved sources the retrieved-context block of the prompt
\* is not empty and holds the "no relevant sources" marker
C14_EmptyContextMarked ==
    (prompt # <<>> /\ build_args.retrieved_sources = <<>>) =>
        LET ctx == components[1].retrieved_context
        IN  /\ ctx # <<>>
            /\ \E i \in DOMAIN ctx :
                  ctx[i] = "[No relevant sources found in user's document corpus]"
            /\ HasAt(prompt[1], 7, ctx)

C14_Witness ==
    /\ prompt # <<>>
    /\ build_args.retrieved_sources = <<>>
    /\ prompt[1][8] = "[No relevant sources found in user's document corpus]"

-----------------------------------------------------------------------------
(* chunk_labeling.py: ChunkLabelingService, the pure labeling functions     *)
(* A chunk text is given by what the functions read of it: its number of   *)
(* words len(text.split()), per role the number of matches of the role's   *)
(* patterns, and the tag candidates in the order they occur in the text.   *)
(* A float is the exact fraction <<numerator, denominator>>.               *)

\* the keys of self.role_patterns in declaration order
role_patterns ==
    << "argument", "example", "background", "conclusion",
       "methodology", "insight", "observation", "definition" >>

\* a / b < c / d for fractions with positive denominators
FracLess(x, y) == x[1] * y[2] < y[1] * x[2]

\* variant of role_scores: the score per word is not scaled to 100 words
role_scores_PerWord(text) ==
    LET wc == IF text.word_count > 1 THEN text.word_count ELSE 1
        F[i \in 0..Len(role_patterns)] ==
            IF i = 0 THEN <<>>
            ELSE IF text.matches[i] > 0
                 THEN Append(F[i - 1], [role |-> role_patterns[i],
                                        normalized_score |-> <<text.matches[i], wc>>])
                 ELSE F[i - 1]
    IN  F[Len(role_patterns)]

\* role_scores: the roles with score > 0 in insertion order, each with
\* normalized_score = (score / max(word_count, 1)) * 100
role_scores(text) ==
    LET wc == IF text.word_count > 1 THEN text.word_count ELSE 1
        F[i \in 0..Len(role_patterns)] ==
            IF i = 0 THEN <<>>
            ELSE IF text.matches[i] > 0
                 THEN Append(F[i - 1], [role |-> role_patterns[i],
                                        normalized_score |-> <<text.matches[i] * 100, wc>>])
                 ELSE F[i - 1]
    IN  F[Len(role_patterns)]

\* variant of FirstMax: of equal scores the last one wins
FirstMax_Last(scores) ==
    CHOOSE i \in DOMAIN scores :
        /\ \A j \in DOMAIN scores :
              ~FracLess(scores[i].normalized_score, scores[j].normalized_score)
        /\ \A j \in (i + 1)..Len(scores) :
              FracLess(scores[j].normalized_score, scores[i].normalized_score)

\* max(role_scores, key=role_scores.get): the first key whose value no
\* other key exceeds
FirstMax(scores) ==
    CHOOSE i \in DOMAIN scores :
        /\ \A j \in DOMAIN scores :
              ~FracLess(scores[i].normalized_score, scores[j].normalized_score)
        /\ \A j \in 1..(i - 1) :
              FracLess(scores[j].normalized_score, scores[i].normalized_score)

\* _detect_rhetorical_role(text)
detect_rhetorical_role(text) ==
    LET scores == role_scores(text)
    IN  IF scores = <<>>
        THEN [role |-> "unknown", confidence |-> <<0, 1>>]
        ELSE LET best == scores[FirstMax(scores)]
                 best_score == best.normalized_score
                 \* min(best_score / 5.0, 1.0)
                 confidence == IF best_score[1] >= 5 * best_score[2]
                               THEN <<1, 1>>
                               ELSE <<best_score[1], 5 * best_score[2]>>
             IN  IF 10 * confidence[1] < confidence[2] /\ text.word_count < 20
                 THEN [role |-> "insufficient_data", confidence |-> <<0, 1>>]
                 ELSE [role |-> best.role, confidence |-> confidence]

\* the keys of tag_counts in insertion order: the capitalized phrases of at
\* most 4 words as re.findall lists them, then the acronyms
tag_keys(text) ==
    LET c == text.candidates
        pass(kind) ==
            LET F[i \in 0..Len(c)] ==
                    IF i = 0 THEN <<>>
                    ELSE IF /\ c[i].kind = kind
                            /\ c[i].words <= 4
                            /\ \A k \in DOMAIN F[i - 1] : F[i - 1][k] # c[i].tag
                         THEN Append(F[i - 1], c[i].tag)
                         ELSE F[i - 1]
            IN  F[Len(c)]
    IN  pass("phrase") \o pass("acronym")

\* tag_counts[tag]
tag_count(text, tag) ==
    Cardinality({ i \in DOMAIN text.candidates :
                    text.candidates[i].tag = tag /\ text.candidates[i].words <= 4 })

\* sorted(tag_counts.items(), key=lambda x: x[1], reverse=True): a stable
\* sort, so keys of equal count keep their insertion order
sorted_tags(text) ==
    LET keys == tag_keys(text)
        before(i, j) ==
            \/ tag_count(text, keys[i]) > tag_count(text, keys[j])
            \/ tag_count(text, keys[i]) = tag_count(text, keys[j]) /\ i < j
        rank(i) == 1 + Cardinality({ j \in DOMAIN keys : before(j, i) })
    IN  [r \in DOMAIN keys |-> keys[CHOOSE i \in DOMAIN keys : rank(i) = r]]

\* _extract_topic_tags(text, max_tags): <<>> stands for None
extract_topic_tags(text, max_tags) ==
    LET sorted == sorted_tags(text)
        top_tags == SubSeq(sorted, 1, IF Len(sorted) < max_tags THEN Len(sorted) ELSE max_tags)
    IN  IF sorted = <<>> \/ top_tags = <<>> THEN <<>> ELSE <<top_tags>>

-----------------------------------------------------------------------------
(* Specification SpecLabeler: the labeling functions applied to drawn texts *)

MaxWordCount == 21
MaxScore == 2
MaxMatchedRoles == 3
MaxCandidates == 3

\* the default max_tags of _extract_topic_tags
MaxTags == 3

\* word counts of the drawn texts: short ones, and one long text
WordCounts == 0..MaxWordCount \cup {250}

\* per role, the number of pattern matches; a match needs a word of the text
MatchCounts(wc) ==
    { m \in [1..Len(role_patterns) -> 0..MaxScore] :
        /\ Cardinality({ i \in DOMAIN m : m[i] > 0 }) <= MaxMatchedRoles
        /\ \A i \in DOMAIN m : m[i] <= wc }

\* occurrences of tag candidates: capitalized phrases (one of them longer
\* than four words) and acronyms
Candidates ==
    { [kind |-> "phrase", tag |-> "Machine Learning", words |-> 2],
      [kind |-> "phrase", tag |-> "Deep Neural Network Training Methods", words |-> 5],
      [kind |-> "phrase", tag |-> "Neural Networks", words |-> 2],
      [kind |-> "acronym", tag |-> "NLP", words |-> 1],
      [kind |-> "acronym", tag |-> "GPU", words |-> 1] }

InitLabeler ==
    /\ IdleLLM
    /\ IdleAssist
    /\ IdleProc
    /\ IdleStore
    /\ IdleLabels
    /\ IdleValidator
    /\ IdleRate
    /\ IdleSanitize
    /\ IdleRetry
    /\ IdleSearch
    /\ IdlePrompt
    /\ \/ \E wc \in WordCounts :
            \E m \in MatchCounts(wc) :
               label_text = [word_count |-> wc, matches |-> m, candidates |-> <<>>]
       \/ \E c \in SeqsUpTo(Candidates, MaxCandidates) :
            label_text = [word_count |-> 250, matches |-> <<0, 0, 0, 0, 0, 0, 0, 0>>,
                          candidates |-> c]
    /\ role_result = <<>>
    /\ tags_result = <<>>

\* rhetorical_role, role_confidence = self._detect_rhetorical_role(chunk_text)
DetectRhetoricalRole ==
    /\ role_result' = <<detect_rhetorical_role(label_text)>>
    /\ UNCHANGED <<label_text, tags_result>>
    /\ UNCHANGED <<llmVars, assistVars, procVars, storeVars, labelVars, promptVars, searchVars, retryVars, sanitizeVars, rateVars, validatorVars>>

\* topic_tags = self._extract_topic_tags(chunk_text)
ExtractTopicTags ==
    /\ tags_result' = <<extract_topic_tags(label_text, MaxTags)>>
    /\ UNCHANGED <<label_text, role_result>>
    /\ UNCHANGED <<llmVars, assistVars, procVars, storeVars, labelVars, promptVars, searchVars, retryVars, sanitizeVars, rateVars, validatorVars>>

NextLabeler == DetectRhetoricalRole \/ ExtractTopicTags

SpecLabeler == InitLabeler /\ [][NextLabeler]_vars

\* the largest number of matches any role has in the text
TopMatches == CHOOSE n \in 0..MaxScore :
    /\ \A i \in DOMAIN label_text.matches : label_text.matches[i] <= n
    /\ n > 0 => \E i \in DOMAIN label_text.matches : label_text.matches[i] = n

\* C16 (as claimed): a text of fewer than 20 words with no strong pattern
\* match (none at all, or a best confidence below 0.1) is classified as
\* (insufficient_data, 0.0)
C16_ShortTextInsufficient ==
    (/\ role_result # <<>>
     /\ label_text.word_count < 20
     /\ 200 * TopMatches < (IF label_text.word_count > 1 THEN label_text.word_count ELSE 1))
    => role_result[1] = [role |-> "insufficient_data", confidence |-> <<0, 1>>]

\* the short-text override of _detect_rhetorical_role applies to the text
OverrideApplies ==
    /\ label_text.word_count < 20
    /\ TopMatches > 0
    /\ 200 * TopMatches < label_text.word_count

FirstSeen(tag) ==
    CHOOSE i \in DOMAIN label_text.candidates :
        /\ label_text.candidates[i].tag = tag
        /\ \A j \in 1..(i - 1) : label_text.candidates[j].tag # tag

\* candidate a ranks before candidate b: more frequent, or as frequent and
\* first seen earlier in the text
RanksBefore(a, b) ==
    \/ tag_count(label_text, a) > tag_count(label_text, b)
    \/ /\ tag_count(label_text, a) = tag_count(label_text, b)
       /\ FirstSeen(a) < FirstSeen(b)

\* the candidates of the text: phrases of at most four words, and acronyms
CandidateTags ==
    { label_text.candidates[i].tag : i \in { k \in DOMAIN label_text.candidates :
                                               label_text.candidates[k].words <= 4 } }

\* C18 (as claimed): the tags are the max_tags most frequent candidates in
\* descending frequency, candidates of equal frequency in the order of their
\* first appearance in the text, phrase or acronym alike
C18_TagsByFrequencyThenPosition ==
    (tags_result # <<>> /\ CandidateTags # {}) =>
        /\ tags_result[1] # <<>>
        /\ LET tags == tags_result[1][1]
           IN  /\ Len(tags) = (IF Cardinality(CandidateTags) < MaxTags
                               THEN Cardinality(CandidateTags) ELSE MaxTags)
               /\ \A i \in DOMAIN tags : tags[i] \in CandidateTags
               /\ \A i, j \in DOMAIN tags : i < j => RanksBefore(tags[i], tags[j])
               /\ \A t \in CandidateTags :
                     (\A i \in DOMAIN tags : tags[i] # t) =>
                         \A i \in DOMAIN tags : RanksBefore(tags[i], t)

-----------------------------------------------------------------------------
(* Specification SpecUploads: upload_document requests only, interleaved at
   their external calls (the workers of the service share the index and the
   documents table) *)

\* files of the interleaved uploads: no chunk, two chunks, two chunks with
\* one chunk_index, and a file whose records take two upsert rounds
UploadFiles ==
    { [ext |-> "txt", pages |-> <<0>>],
      [ext |-> "txt", pages |-> <<CHUNK_SIZE - CHUNK_OVERLAP + 1>>],
      [ext |-> "pdf", pages |-> <<1, 1>>],
      [ext |-> "pdf", pages |-> <<BATCH_SIZE * (CHUNK_SIZE - CHUNK_OVERLAP), 1>>] }

NextUploads ==
    \/ \E u \in Users, d \in DocIds, f \in UploadFiles, ok \in BOOLEAN : UploadStart(u, d, f, ok)
    \/ \E d \in DocIds : UpsertBatch(d)
    \/ \E d \in DocIds : UpsertFail(d)
    \/ \E d \in DocIds : CommitUpload(d)
    \/ \E d \in DocIds : CommitFail(d)

SpecUploads == InitStore /\ [][NextUploads]_vars

\* the stores after the upload of document d has run on them by itself, as
\* far as it got: its successful upsert rounds, then its row if it committed
UploadAlone(st, d) ==
    LET up == uploads[d]
        rounds == up.next \div BATCH_SIZE
        F[i \in 0..rounds] ==
            IF i = 0 THEN st.index
            ELSE LET last == IF i * BATCH_SIZE < Len(up.vectors)
                             THEN i * BATCH_SIZE ELSE Len(up.vectors)
                 IN  index_upsert(F[i - 1],
                                  SubSeq(up.vectors, (i - 1) * BATCH_SIZE + 1, last))
    IN  [index |-> F[rounds],
         documents |-> IF up.pc = "done"
                       THEN st.documents \cup
                               { [id |-> d, user_id |-> up.user_id,
                                  chunk_count |-> up.chunk_count] }
                       ELSE st.documents]

\* the uploads run one after the other, in the order of their requests
OneAfterTheOther ==
    LET G[d \in 0..MaxDocs] ==
            IF d = 0 THEN [index |-> {}, documents |-> {}]
            ELSE UploadAlone(G[d - 1], d)
    IN  G[MaxDocs]

UploadsFinished == \A d \in DocIds : uploads[d].pc \in {"done", "failed"}

\* C23: however the steps of the uploads interleave, once they have ended
\* the index and the documents table are those of running the uploads one
\* after the other, and no step of one upload changes the records or the
\* row of another document
C23_UploadsIndependent ==
    /\ [](UploadsFinished =>
             /\ index = OneAfterTheOther.index
             /\ documents = OneAfterTheOther.documents)
    /\ [][ \A d \in DocIds :
             uploads'[d] # uploads[d] =>
                \A e \in DocIds \ {d} :
                   /\ RecordsOf(index', e) = RecordsOf(index, e)
                   /\ RowsOf(documents', e) = RowsOf(documents, e) ]_vars

\* two uploads of one owner have both ended with a row, each with records in
\* the index
C23_Witness ==
    /\ UploadsFinished
    /\ uploads[1].user_id = uploads[2].user_id
    /\ uploads[1].pc = "done"
    /\ uploads[2].pc = "done"
    /\ RecordsOf(index, 1) # {}
    /\ RecordsOf(index, 2) # {}

-----------------------------------------------------------------------------
(* tenacity retry wrappers: VectorStore._get_embedding, VectorStore.search,
   LLMService.generate_guidance.  Each is decorated with
   @retry(stop=stop_after_attempt(3), wait=wait_exponential(min=1, max=10));
   without reraise, the wrapper raises RetryError once the stop condition
   holds after a failed attempt.  search calls _get_embedding inside its own
   retried body, so a RetryError of the inner wrapper is one failed attempt
   of the outer one. *)

STOP_AFTER_ATTEMPT == 3

retry_stop_OneMore(attempt) == attempt > STOP_AFTER_ATTEMPT

retry_stop(attempt) == attempt >= STOP_AFTER_ATTEMPT

RetriedOperations == {"search", "generate_guidance"}

FirstCall(op) == IF op = "search" THEN "embed" ELSE "completion"

Calls(log, call) == Cardinality({i \in DOMAIN log : log[i][1] = call})

Failures(log, call) ==
    Cardinality({i \in DOMAIN log : log[i][1] = call /\ ~log[i][2]})

(* One attempt of the decorated method has raised: the wrapper stops with
   RetryError or runs the method again from its first statement. *)
attempt_failed ==
    IF retry_stop(attempt_number)
    THEN /\ call_pc' = "raised"
         /\ UNCHANGED <<attempt_number, embedding_attempt>>
    ELSE /\ call_pc' = FirstCall(operation)
         /\ attempt_number' = attempt_number + 1
         /\ embedding_attempt' = 1

InitRetry ==
    /\ operation \in RetriedOperations
    /\ call_pc = FirstCall(operation)
    /\ attempt_number = 1
    /\ embedding_attempt = 1
    /\ call_log = <<>>
    /\ IdleLLM
    /\ IdleAssist
    /\ IdleProc
    /\ IdleStore
    /\ IdleLabels
    /\ IdleValidator
    /\ IdleRate
    /\ IdleSanitize
    /\ IdlePrompt
    /\ IdleLabeler
    /\ IdleSearch

(* vector_store.py:56, reached from search at line 137 *)
Embed(ok) ==
    /\ operation = "search"
    /\ call_pc = "embed"
    /\ call_log' = Append(call_log, <<"embedding", ok>>)
    /\ IF ok
       THEN /\ call_pc' = "query"
            /\ UNCHANGED <<attempt_number, embedding_attempt>>
       ELSE IF retry_stop(embedding_attempt)
            THEN attempt_failed
            ELSE /\ embedding_attempt' = embedding_attempt + 1
                 /\ UNCHANGED <<call_pc, attempt_number>>
    /\ UNCHANGED operation
    /\ UNCHANGED <<llmVars, assistVars, procVars, storeVars, labelVars, promptVars, labelerVars, searchVars, sanitizeVars, rateVars, validatorVars>>

(* vector_store.py:147-176: the query and the parsing of its matches *)
Query(ok) ==
    /\ operation = "search"
    /\ call_pc = "query"
    /\ call_log' = Append(call_log, <<"query", ok>>)
    /\ IF ok
       THEN /\ call_pc' = "returned"
            /\ UNCHANGED <<attempt_number, embedding_attempt>>
       ELSE attempt_failed
    /\ UNCHANGED operation
    /\ UNCHANGED <<llmVars, assistVars, procVars, storeVars, labelVars, promptVars, labelerVars, searchVars, sanitizeVars, rateVars, validatorVars>>

(* llm_service.py:34-63: any exception becomes RuntimeError, which the
   wrapper retries *)
Completion(ok) ==
    /\ operation = "generate_guidance"
    /\ call_pc = "completion"
    /\ call_log' = Append(call_log, <<"completion", ok>>)
    /\ IF ok
       THEN /\ call_pc' = "returned"
            /\ UNCHANGED <<attempt_number, embedding_attempt>>
       ELSE attempt_failed
    /\ UNCHANGED operation
    /\ UNCHANGED <<llmVars, assistVars, procVars, storeVars, labelVars, promptVars, labelerVars, searchVars, sanitizeVars, rateVars, validatorVars>>

NextRetry ==
    \/ \E ok \in BOOLEAN : Embed(ok)
    \/ \E ok \in BOOLEAN : Query(ok)
    \/ \E ok \in BOOLEAN : Completion(ok)

SpecRetry == InitRetry /\ [][NextRetry]_vars

ExternalCalls == {"embedding", "query", "completion"}

(* C21 as stated: within one search or generate_guidance operation each
   external call is attempted at most 3 times, and the operation ends with
   a failure once every attempt has failed. *)
C21_AtMostThreeAttempts ==
    /\ \A c \in ExternalCalls : Calls(call_log, c) <= STOP_AFTER_ATTEMPT
    /\ call_pc = "raised" => attempt_number = STOP_AFTER_ATTEMPT

(* C21 amended: the index query and the completion are attempted at most 3
   times; the embedding is attempted at most 3 times per attempt of search,
   so at most 9 times in one search; no wrapper runs a 4th attempt, and an
   operation whose last allowed attempt failed has raised to its caller and
   makes no further call. *)
C21_BoundedNestedRetry ==
    /\ Calls(call_log, "query") <= STOP_AFTER_ATTEMPT
    /\ Calls(call_log, "completion") <= STOP_AFTER_ATTEMPT
    /\ Calls(call_log, "embedding") <= STOP_AFTER_ATTEMPT * STOP_AFTER_ATTEMPT
    /\ attempt_number <= STOP_AFTER_ATTEMPT
    /\ embedding_attempt <= STOP_AFTER_ATTEMPT
    /\ call_pc = "raised" =>
          /\ attempt_number = STOP_AFTER_ATTEMPT
          /\ ~call_log[Len(call_log)][2]
          /\ ~ENABLED NextRetry
    /\ Failures(call_log, "completion") = STOP_AFTER_ATTEMPT => call_pc = "raised"
    /\ Failures(call_log, "query") = STOP_AFTER_ATTEMPT => call_pc = "raised"
    /\ Failures(call_log, "embedding") = STOP_AFTER_ATTEMPT * STOP_AFTER_ATTEMPT
          => call_pc = "raised"

(* every embedding attempt of every attempt of search failed *)
C21_Witness ==
    /\ operation = "search"
    /\ call_pc = "raised"
    /\ Calls(call_log, "embedding") = STOP_AFTER_ATTEMPT * STOP_AFTER_ATTEMPT

-----------------------------------------------------------------------------
(* core/security.py: sanitize_filename.  A filename is a sequence of
   characters; "NUL" stands for the character \x00. *)

\* os.path.basename (posixpath): what follows the last "/"
basename(p) ==
    LET slashes == {i \in DOMAIN p : p[i] = "/"}
        i == IF slashes = {} THEN 0 ELSE CHOOSE j \in slashes : \A k \in slashes : k <= j
    IN  SubSeq(p, i + 1, Len(p))

\* str.replace(old, ''): the non-overlapping occurrences of old, found from
\* the left, are removed in one pass.  Every old the function uses is one
\* character c repeated m times, so in a maximal run of L characters c the
\* first m * (L \div m) are removed and the rest stay.
str_remove(s, old) ==
    LET c == old[1]
        m == Len(old)
        other == {j \in DOMAIN s : s[j] # c}
        RunStart(i) ==
            LET before == {j \in other : j < i}
            IN  IF before = {} THEN 1
                ELSE 1 + CHOOSE j \in before : \A k \in before : k <= j
        RunEnd(i) ==
            LET after == {j \in other : j > i}
            IN  IF after = {} THEN Len(s)
                ELSE (CHOOSE j \in after : \A k \in after : j <= k) - 1
        Kept(i) ==
            \/ s[i] # c
            \/ i - RunStart(i) >= m * ((RunEnd(i) - RunStart(i) + 1) \div m)
        kept == SelectSeq([i \in DOMAIN s |-> i], Kept)
    IN  [j \in DOMAIN kept |-> s[kept[j]]]

dangerous_chars == << <<".", ".">>, <<"/">>, <<"\\">>, <<"NUL">> >>

\* for char in dangerous_chars: filename = filename.replace(char, '')
remove_dangerous(s) ==
    LET F[k \in 0..Len(dangerous_chars)] ==
            IF k = 0 THEN s ELSE str_remove(F[k - 1], dangerous_chars[k])
    IN  F[Len(dangerous_chars)]

\* os.path.splitext: the extension starts at the last dot, unless only dots
\* precede that dot in the name
splitext(p) ==
    LET seps == {i \in DOMAIN p : p[i] = "/"}
        sepIndex == IF seps = {} THEN 0 ELSE CHOOSE j \in seps : \A k \in seps : k <= j
        dots == {i \in DOMAIN p : p[i] = "."}
        dotIndex == IF dots = {} THEN 0 ELSE CHOOSE j \in dots : \A k \in dots : k <= j
    IN  IF dotIndex > sepIndex /\ \E i \in (sepIndex + 1)..(dotIndex - 1) : p[i] # "."
        THEN <<SubSeq(p, 1, dotIndex - 1), SubSeq(p, dotIndex, Len(p))>>
        ELSE <<p, <<>>>>

max_length == 255

\* name[:k] of Python, k of either sign
slice_to(name, k) ==
    IF k >= 0 THEN SubSeq(name, 1, IF k < Len(name) THEN k ELSE Len(name))
    ELSE SubSeq(name, 1, Len(name) + k)

sanitize_filename(f) ==
    LET cleaned == remove_dangerous(basename(f))
    IN  IF Len(cleaned) > max_length
        THEN LET parts == splitext(cleaned)
             IN  slice_to(parts[1], max_length - Len(parts[2])) \o parts[2]
        ELSE cleaned

MaxNameLen == 3

NameChars == {"a", ".", "/", "\\", "NUL"}

Pad(n) == [i \in 1..n |-> "x"]

\* short names over NameChars, and names around max_length characters
UploadNames ==
    UNION { [1..n -> NameChars] : n \in 0..MaxNameLen }
    \cup { Pad(n) \o tail :
             n \in {max_length - 6, max_length - 5, max_length - 4, max_length},
             tail \in { <<".", "a", "a", "a", "a", ".", "a", "a", "a">>, <<".", "a">> } }

InitSanitize ==
    /\ filename \in UploadNames
    /\ safe_filename = <<>>
    /\ IdleLLM
    /\ IdleAssist
    /\ IdleProc
    /\ IdleStore
    /\ IdleLabels
    /\ IdleValidator
    /\ IdleRate
    /\ IdlePrompt
    /\ IdleLabeler
    /\ IdleSearch
    /\ IdleRetry

SanitizeFilename ==
    /\ safe_filename = <<>>
    /\ safe_filename' = <<sanitize_filename(filename)>>
    /\ UNCHANGED filename
    /\ UNCHANGED <<llmVars, assistVars, procVars, storeVars, labelVars, promptVars, labelerVars, searchVars, retryVars, rateVars, validatorVars>>

NextSanitize == SanitizeFilename

SpecSanitize == InitSanitize /\ [][NextSanitize]_vars

HasSub(s, old) ==
    \E i \in 1..(Len(s) - Len(old) + 1) : SubSeq(s, i, i + Len(old) - 1) = old

\* C24 (as claimed): the string sanitize_filename returns contains no "..",
\* no "/", no "\" and no NUL character
C24_NoDangerousSubstring ==
    safe_filename # <<>> =>
       \A k \in DOMAIN dangerous_chars : ~HasSub(safe_filename[1], dangerous_chars[k])

-----------------------------------------------------------------------------
(* core/rate_limiter.py: RateLimiter.check_rate_limit with Redis available.
   The calls of one user for one action run in the workers of the service
   and share the key; every Redis command is one atomic step, and the
   seconds of the key's expiry pass between any two of them. *)

\* (max_requests, window_seconds) as _parse_rate_limit returns them for the
\* limit of the action, here a small limit over a short window
max_requests == 2

window_seconds == 2

NumCallers == 3

Callers == 1..NumCallers

NoExpiry == 0 - 1

InitRate ==
    /\ redis_key = <<>>
    /\ call_state = [c \in Callers |-> [pc |-> "idle", result |-> "none"]]
    /\ allowed_calls = 0
    /\ IdleLLM
    /\ IdleAssist
    /\ IdleProc
    /\ IdleStore
    /\ IdleLabels
    /\ IdleValidator
    /\ IdlePrompt
    /\ IdleLabeler
    /\ IdleSearch
    /\ IdleRetry
    /\ IdleSanitize

\* current = redis_client.get(key), and the branch taken on it
RedisGet(c) ==
    /\ call_state[c].pc = "idle"
    /\ call_state' = [call_state EXCEPT ![c] =
          IF redis_key = <<>> THEN [pc |-> "setex", result |-> "none"]
          ELSE IF redis_key[1].value >= max_requests
               THEN [pc |-> "idle", result |-> "refused"]
               ELSE [pc |-> "incr", result |-> "none"]]
    /\ UNCHANGED <<redis_key, allowed_calls>>
    /\ UNCHANGED <<llmVars, assistVars, procVars, storeVars, labelVars, promptVars, labelerVars, searchVars, retryVars, sanitizeVars, validatorVars>>

\* redis_client.setex(key, window_seconds, 1); return
RedisSetex(c) ==
    /\ call_state[c].pc = "setex"
    /\ redis_key' = <<[value |-> 1, ttl |-> window_seconds]>>
    /\ call_state' = [call_state EXCEPT ![c] = [pc |-> "idle", result |-> "allowed"]]
    /\ allowed_calls' = allowed_calls + 1
    /\ UNCHANGED <<llmVars, assistVars, procVars, storeVars, labelVars, promptVars, labelerVars, searchVars, retryVars, sanitizeVars, validatorVars>>

\* new_count = redis_client.incr(key): INCR of a missing key creates it with
\* value 1 and no expiry
RedisIncr(c) ==
    /\ call_state[c].pc = "incr"
    /\ redis_key' = IF redis_key = <<>>
                    THEN <<[value |-> 1, ttl |-> NoExpiry]>>
                    ELSE <<[redis_key[1] EXCEPT !.value = @ + 1]>>
    /\ call_state' = [call_state EXCEPT ![c] = [pc |-> "idle", result |-> "allowed"]]
    /\ allowed_calls' = allowed_calls + 1
    /\ UNCHANGED <<llmVars, assistVars, procVars, storeVars, labelVars, promptVars, labelerVars, searchVars, retryVars, sanitizeVars, validatorVars>>

\* a second passes: a key with an expiry loses a second of it and is
\* removed by Redis when none is left
SecondPasses ==
    /\ redis_key # <<>>
    /\ redis_key[1].ttl > 0
    /\ IF redis_key[1].ttl = 1
       THEN /\ redis_key' = <<>>
            /\ allowed_calls' = 0
       ELSE /\ redis_key' = <<[redis_key[1] EXCEPT !.ttl = @ - 1]>>
            /\ UNCHANGED allowed_calls
    /\ UNCHANGED call_state
    /\ UNCHANGED <<llmVars, assistVars, procVars, storeVars, labelVars, promptVars, labelerVars, searchVars, retryVars, sanitizeVars, validatorVars>>

NextRate ==
    \/ \E c \in Callers : RedisGet(c)
    \/ \E c \in Callers : RedisSetex(c)
    \/ \E c \in Callers : RedisIncr(c)
    \/ SecondPasses

SpecRate == InitRate /\ [][NextRate]_vars

\* C25 (as claimed): under every interleaving of the calls, the number of
\* calls allowed within one window (since the key last expired) is at most
\* max_requests
C25_AllowedWithinLimit == allowed_calls <= max_requests

\* C26 (as claimed): a counter key that exists carries an expiry of at most
\* its window
C26_KeyAlwaysExpires ==
    redis_key # <<>> => redis_key[1].ttl \in 1..window_seconds

-----------------------------------------------------------------------------
(* prompt_builder.py: PromptBuilder.validate_output, next to
   LLMService.validate_generation *)

\* the list forbidden_patterns of validate_output
output_forbidden_patterns == <<"I think", "In my opinion", "I would", "My approach">>

\* variant: "### 3. Alternative Paths" is required as well
validate_output_AllSections(text, m) ==
    /\ FirstMissing(text, required_sections(m)) = 0
    /\ Contains(text, "### 3. Alternative Paths")
    /\ \A i \in DOMAIN output_forbidden_patterns :
          ~ContainsLower(text, output_forbidden_patterns[i])

validate_output(text, m) ==
    /\ FirstMissing(text, required_sections(m)) = 0
    /\ \A i \in DOMAIN output_forbidden_patterns :
          ~ContainsLower(text, output_forbidden_patterns[i])

\* PromptBuilder.validate_output(output, mode)
ValidateOutput ==
    /\ output_check = <<>>
    /\ output_check' = <<validate_output(output, mode)>>
    /\ UNCHANGED <<llmVars, assistVars, procVars, storeVars, labelVars, promptVars, labelerVars, searchVars, retryVars, sanitizeVars, rateVars>>

NextValidators == ValidateGeneration \/ ValidateOutput

SpecValidators == InitLLM /\ [][NextValidators]_vars

\* C30: an output that validate_generation accepts for a mode is accepted
\* by validate_output for that mode
C30_GenerationValidImpliesOutputValid ==
    (generation # <<>> /\ output_check # <<>> /\ generation[1].is_valid)
        => output_check = <<TRUE>>

\* both validators were applied to an output and both have accepted it
C30_Witness ==
    /\ generation = <<Valid>>
    /\ output_check = <<TRUE>>
    /\ Contains(output, "guidance")

====
